---- MODULE Spec2Model ----
(***************************************************************************)
(* Model of forge.shared.core.event_bus.EventBus: the in-process asyncio   *)
(* publish/subscribe bus.  One action is one uninterrupted run of a        *)
(* coroutine between two suspension points of the event loop.  The bus     *)
(* lock is free whenever a coroutine is resumed and no critical section    *)
(* contains an await, so subscribe, unsubscribe and publish each run in    *)
(* one step.                                                               *)
(***************************************************************************)
EXTENDS Integers, Sequences, FiniteSets, TLC

\* ---------------------------------------------------------------- bounds
MaxPublishes == 1      \* publish calls made by the application (not by handlers)
MaxCalls == 2          \* subscribe, unsubscribe and clear calls made by the application

\* ---------------------------------------------------------------- inputs
Topics == {"T1", "T2"}
PayloadOrder == <<"p1", "p2">>
Payloads == {PayloadOrder[j] : j \in 1..Len(PayloadOrder)}
Handlers == {"hOk", "hRaise", "hCascade", "hHang"}
Timeouts == {0, 1}     \* timeouts given to wait_until_idle, in sleep slices of 0.1 s

\* ---------------------------------------------------------------- stages
TOPIC_DATA_INGESTED == "data.ingested"
TOPIC_DOCUMENT_METADATA == "document.metadata"
TOPIC_ENTITY_EXTRACTED == "entity.extracted"
TOPIC_RELATIONSHIP_FOUND == "relationship.found"
TOPIC_GRAPH_UPDATED == "graph.updated"
TOPIC_ENTITY_CARD_READY == "entity_card.ready"
TOPIC_LOGS_EVENT == "logs.event"
TOPIC_WORKSPACE_SCHEMA == "workspace.schema"

Stages == {"extraction", "metadata", "graph", "card", "persistence", "appstate"}

\* the UI controllers that subscribe handlers to pipeline topics
UiControllers == {"intelligence", "dashboard", "shell"}

\* the <<topic, method>> pairs the stage's start() subscribes, in order
StageSubs(s) ==
  CASE s = "extraction" ->
         << <<TOPIC_DATA_INGESTED, "extraction.handle_data_ingested">> >>
    [] s = "metadata" ->
         << <<TOPIC_DATA_INGESTED, "metadata.handle_data_ingested">> >>
    [] s = "graph" ->
         << <<TOPIC_ENTITY_EXTRACTED, "graph.handle_entity_extracted">>,
            <<TOPIC_RELATIONSHIP_FOUND, "graph.handle_relationship_found">> >>
    [] s = "card" ->
         << <<TOPIC_ENTITY_EXTRACTED, "card.handle_entity_extracted">> >>
    [] s = "persistence" ->
         << <<TOPIC_ENTITY_EXTRACTED, "persistence.handle_entity_extracted">>,
            <<TOPIC_GRAPH_UPDATED, "persistence.handle_graph_updated">>,
            <<"workspace.schema", "persistence.handle_workspace_schema">>,
            <<"semantic.profile", "persistence.handle_semantic_profile">>,
            <<"narrative.generated", "persistence.handle_narrative_generated">> >>
    [] s = "appstate" ->
         << <<"workspace.schema", "appstate._handle_workspace_schema">>,
            <<"workspace.clear", "appstate._handle_workspace_clear">>,
            <<"status.text", "appstate._handle_status_text">>,
            <<"nav.select", "appstate._handle_nav_select">> >>
    [] s = "intelligence" ->
         << <<TOPIC_ENTITY_CARD_READY, "intelligence._on_card_ready">> >>
    [] s = "dashboard" ->
         << <<TOPIC_GRAPH_UPDATED, "dashboard._on_graph_updated">> >>
    [] s = "shell" ->
         << <<TOPIC_DATA_INGESTED, "shell._on_data_ingested">>,
            <<TOPIC_ENTITY_EXTRACTED, "shell._on_entity_extracted">>,
            <<TOPIC_GRAPH_UPDATED, "shell._on_graph_updated">> >>

Methods ==
  UNION {{StageSubs(s)[j][2] : j \in 1..Len(StageSubs(s))} : s \in Stages \cup UiControllers}

\* self.handle_x evaluated by the n-th call that needs it: each evaluation
\* makes a new bound-method object of the same method of the same instance
BoundName == [m \in Methods, n \in 1..(MaxCalls + 1) |-> m \o "#" \o ToString(n)]

Bound(m, n) == BoundName[m, n]

BoundObjects == {Bound(m, n) : m \in Methods, n \in 1..(MaxCalls + 1)}

\* __func__ (and __self__) of the bound-method object
MethodName ==
  [o \in BoundObjects |->
     CHOOSE m \in Methods : \E n \in 1..(MaxCalls + 1) : Bound(m, n) = o]

MethodOf(o) == MethodName[o]

\* what the stage's handler does once awaited
\*   extract : DocumentExtractionService.handle_data_ingested
\*   cascade : awaits bus.publish on its output topic, then returns
\*   ok      : returns without publishing
MethodBehaviour(m) ==
  CASE m = "extraction.handle_data_ingested" -> "extract"
    [] m \in {"metadata.handle_data_ingested", "graph.handle_entity_extracted",
              "graph.handle_relationship_found", "card.handle_entity_extracted",
              "persistence.handle_graph_updated", "intelligence._on_card_ready",
              "dashboard._on_graph_updated"} -> "cascade"
    [] OTHER -> "ok"

OutTopicOfCyclic(m) ==
  CASE m = "extraction.handle_data_ingested" -> TOPIC_ENTITY_EXTRACTED
    [] m = "metadata.handle_data_ingested" -> TOPIC_DOCUMENT_METADATA
    [] m = "graph.handle_entity_extracted" -> TOPIC_GRAPH_UPDATED
    [] m = "graph.handle_relationship_found" -> TOPIC_GRAPH_UPDATED
    [] m = "card.handle_entity_extracted" -> TOPIC_ENTITY_CARD_READY
    [] m = "persistence.handle_graph_updated" -> TOPIC_ENTITY_EXTRACTED
    [] m = "intelligence._on_card_ready" -> TOPIC_WORKSPACE_SCHEMA
    [] m = "dashboard._on_graph_updated" -> TOPIC_LOGS_EVENT
    [] OTHER -> "no.topic"

\* the topic the stage's handler publishes on
OutTopicOf(m) ==
  CASE m = "extraction.handle_data_ingested" -> TOPIC_ENTITY_EXTRACTED
    [] m = "metadata.handle_data_ingested" -> TOPIC_DOCUMENT_METADATA
    [] m = "graph.handle_entity_extracted" -> TOPIC_GRAPH_UPDATED
    [] m = "graph.handle_relationship_found" -> TOPIC_GRAPH_UPDATED
    [] m = "card.handle_entity_extracted" -> TOPIC_ENTITY_CARD_READY
    [] m = "persistence.handle_graph_updated" -> TOPIC_LOGS_EVENT
    [] m = "intelligence._on_card_ready" -> TOPIC_WORKSPACE_SCHEMA
    [] m = "dashboard._on_graph_updated" -> TOPIC_LOGS_EVENT
    [] OTHER -> "no.topic"

MaySkipAny(m) == TRUE

\* handlers with a path that returns without publishing: no metadata found,
\* no entity_id in the payload, nothing to persist, no label on the card, no
\* doc_id or no connection
MaySkip(m) ==
  m \in {"metadata.handle_data_ingested", "card.handle_entity_extracted",
         "persistence.handle_graph_updated", "intelligence._on_card_ready",
         "dashboard._on_graph_updated"}

\* documents published on data.ingested and their content, as characters
Docs == {"doc", "spaces", "empty"}

Content(d) ==
  CASE d = "doc" -> <<" ", "a">>
    [] d = "spaces" -> <<" ", " ">>
    [] OTHER -> <<>>

RECURSIVE StripLeft(_)
StripLeft(c) == IF c # <<>> /\ Head(c) = " " THEN StripLeft(Tail(c)) ELSE c

Reverse(c) == [j \in 1..Len(c) |-> c[Len(c) + 1 - j]]

\* str.strip()
Strip(c) == Reverse(StripLeft(Reverse(StripLeft(c))))

\* if not content or not content.strip()
IsBlank(c) == c = <<>> \/ Strip(c) = <<>>

\* What the handler coroutine does when awaited (event_bus.py:115).
\*   ok      : suspends, later returns normally
\*   raise   : raises an Exception at once
\*   hang    : suspends and never completes
\*   cascade : suspends, later awaits bus.publish(CascadeTopic, payload) and
\*             returns (DocumentExtractionService.handle_data_ingested)
Behaviour(h) ==
  CASE h = "hOk" -> "ok"
    [] h = "hRaise" -> "raise"
    [] h = "hCascade" -> "cascade"
    [] h = "hHang" -> "hang"
    [] OTHER -> MethodBehaviour(MethodOf(h))

CascadeTopic == "T2"

\* the topic a publishing handler publishes on
OutTopic(h) == IF h \in BoundObjects THEN OutTopicOf(MethodOf(h)) ELSE CascadeTopic

NoOwner == "none"
NoHandler == "nobody"
NoPayload == "nothing"

VARIABLES
  subscribers,   \* self._subscribers: topic -> list of handlers (keys present only)
  lock,          \* owner of self._lock, NoOwner when free
  tasks,         \* every task created by publish, in creation order
  pending,       \* self._pending_tasks: set of task ids (indices into tasks)
  waiter,        \* the coroutine running wait_until_idle
  pubs,          \* history: one record per publish call
  unsubbed,      \* history: <<topic, handler, was subscribed>> for every
                 \* unsubscribe call not followed by a subscribe of the pair
  resub,         \* history: <<topic, handler>> subscribed again while subscribed
  calls,         \* history: number of subscribe, unsubscribe and clear calls made
  loop,          \* the event loop that is running the bus's callers and tasks
  lockObj,       \* self._lock: how many Lock objects were made; 0 is None
  loopId,        \* self._loop_id: the loop the lock was made under
  unlocked,      \* history: operations that changed the subscriber map or the
                 \* pending set while not holding the lock
  wiped,         \* history: <<topic, handler>> dropped by clear() and not
                 \* subscribed since
  started,       \* history: stage -> number of start() calls made on it
  entities,      \* the entities table of DuckDBPersistenceService: set of rows
  relationships, \* its relationships table: rows in order of their sequence id
  handled,       \* history: the events the persistence handlers ran on, in order
  store,         \* Store._instance: 0 is None, n is the n-th Store object made
  storeMade,     \* number of Store objects constructed so far
  storeLog,      \* history: the calls made on Store, with what each did
  gDb,           \* GraphAnalysisService.db_conn is set
  gNodes,        \* its _nodes dict: the node records in insertion order
  gEdges,        \* its _edges list
  gPubs,         \* history: the graph.updated payloads it published, in order
  gSeen,         \* history: the payloads of gPubs the persistence service handled
  batch,         \* the coroutine running ExtractionService._process_directory_async
  session        \* the coroutine running a SessionManager project operation

vars == <<subscribers, lock, tasks, pending, waiter, pubs, unsubbed, resub, calls,
          loop, lockObj, loopId, unlocked, wiped,
          started, entities, relationships, handled,
          store, storeMade, storeLog, gDb, gNodes, gEdges, gPubs, gSeen,
          batch, session>>

\* what the bus itself never touches: the stages' and the store's state
storeVars == <<store, storeMade, storeLog>>

\* the state of the application around the stages: the Store, the graph of
\* GraphAnalysisService, the batch run and the project operation
graphVars == <<gDb, gNodes, gEdges, gPubs, gSeen>>

runVars == <<batch, session>>

appVars == <<storeVars, graphVars, runVars>>

extVars == <<started, entities, relationships, handled, appVars>>

\* the lock object and the loop it was made under, written by _ensure_lock only
lockVars == <<lockObj, loopId>>

\* ---------------------------------------------------------------- helpers
Range(s) == {s[i] : i \in 1..Len(s)}

SameHandlerIdentical(a, b) == a = b

\* a == b for callables, as `in` and list.remove compare: functions are equal
\* only to themselves, bound methods when they are the same method of the same
\* instance
SameHandler(a, b) ==
  \/ a = b
  \/ a \in BoundObjects /\ b \in BoundObjects /\ MethodOf(a) = MethodOf(b)

\* handler in lst
Subscribed(lst, h) == \E j \in 1..Len(lst) : SameHandler(lst[j], h)

RemoveFirstIdentical(s, x) == SelectSeq(s, LAMBDA g : g # x)

RECURSIVE RemoveFirst(_, _)
\* list.remove(x): drops the first element equal to x
RemoveFirst(s, x) ==
  IF s = <<>> THEN <<>>
  ELSE IF SameHandler(Head(s), x) THEN Tail(s)
  ELSE <<Head(s)>> \o RemoveFirst(Tail(s), x)

\* self._subscribers.get(topic, [])
GetOrEmpty(subs, t) == IF t \in DOMAIN subs THEN subs[t] ELSE <<>>

\* ---------------------------------------------------------------- subscribe
SubscribeListAlways(lst, h) == Append(lst, h)

\* if handler not in lst: lst.append(handler)
SubscribeList(lst, h) == IF Subscribed(lst, h) THEN lst ELSE Append(lst, h)

\* self._subscribers[topic] on a defaultdict(list) creates the key
SubscribeMap(subs, t, h) ==
  [x \in (DOMAIN subs) \cup {t} |->
     IF x = t THEN SubscribeList(GetOrEmpty(subs, t), h) ELSE subs[x]]

\* ---------------------------------------------------------------- unsubscribe
UnsubscribeListKeep(lst, h) == lst

UnsubscribeList(lst, h) == RemoveFirst(lst, h)

UnsubscribeMapDefault(subs, t, h) ==
  [x \in (DOMAIN subs) \cup {t} |->
     IF x = t THEN UnsubscribeList(GetOrEmpty(subs, t), h) ELSE subs[x]]

\* if handler in self._subscribers.get(topic, []): ...[topic].remove(handler)
UnsubscribeMap(subs, t, h) ==
  IF Subscribed(GetOrEmpty(subs, t), h)
  THEN [subs EXCEPT ![t] = UnsubscribeList(subs[t], h)]
  ELSE subs

\* ---------------------------------------------------------------- lock
Loops == {"init", "ui"}    \* the loop of _run_async_init's thread, the UI's loop
FirstLoop == "init"
NoLoop == "noloop"         \* self._loop_id is None

\* if self._loop_id is not None and self._loop_id != loop_id: self._lock = None
Stale(obj, lid, cur) == lid # NoLoop /\ lid # cur

EnsureLockObjKept(obj, lid, cur) == IF obj = 0 THEN obj + 1 ELSE obj

\* if self._lock is None: self._lock = asyncio.Lock()
EnsureLockObj(obj, lid, cur) ==
  IF obj = 0 \/ Stale(obj, lid, cur) THEN obj + 1 ELSE obj

\* ... self._loop_id = loop_id
EnsureLoopId(obj, lid, cur) ==
  IF obj = 0 \/ Stale(obj, lid, cur) THEN cur ELSE lid

\* self._ensure_lock() called under the running loop
EnsureLock ==
  /\ lockObj' = EnsureLockObj(lockObj, loopId, loop)
  /\ loopId' = EnsureLoopId(lockObj, loopId, loop)

\* the owner of the lock inside the async with block
AcquireLock(owner) == owner

\* async with self._ensure_lock(): the lock is released when the block is left
ReleaseLock(owner) == NoOwner

\* The lock owner while each mutating statement runs: subscribe and unsubscribe
\* mutate inside their async with block; publish leaves its block after the
\* snapshot and registers the tasks afterwards; the done callback and clear()
\* never take the lock.
LockAtMutation(op, owner) ==
  CASE op \in {"subscribe", "unsubscribe"} -> AcquireLock(owner)
    [] op = "publish" -> ReleaseLock(owner)
    [] op \in {"done", "clear"} -> NoOwner

\* history: op mutated shared state; it is recorded when the lock was not held
Mutated(op, owner) ==
  IF LockAtMutation(op, owner) = owner THEN unlocked ELSE unlocked \cup {op}

LockHeldByDispatch(l, i) == "dispatch"

\* _safe_dispatch awaits the handler without touching the lock
LockDuringDispatch(l, i) == l

\* ---------------------------------------------------------------- publish
SubsAfterPublishDefault(subs, t) ==
  [x \in (DOMAIN subs) \cup {t} |-> GetOrEmpty(subs, x)]

\* publish reads with .get(): the subscriber map is not touched
SubsAfterPublish(subs, t) == subs

SnapshotAnyTopic(subs, t) ==
  IF DOMAIN subs = {} THEN <<>> ELSE subs[CHOOSE x \in DOMAIN subs : TRUE]

\* handlers = list(self._subscribers.get(topic, []))
Snapshot(subs, t) == GetOrEmpty(subs, t)

NewTasksAwaited(k, t, p, hs) ==
  [j \in 1..Len(hs) |->
     [pub |-> k, topic |-> t, handler |-> hs[j], payload |-> p, idx |-> j,
      state |-> "running", runs |-> 1, ran |-> hs[j], got |-> p,
      hres |-> "none", exc |-> FALSE]]

\* one task per handler of the snapshot: asyncio.create_task(_safe_dispatch(...))
NewTasks(k, t, p, hs) ==
  [j \in 1..Len(hs) |->
     [pub |-> k, topic |-> t, handler |-> hs[j], payload |-> p, idx |-> j,
      state |-> "scheduled", runs |-> 0, ran |-> NoHandler, got |-> NoPayload,
      hres |-> "none", exc |-> FALSE]]

PendingAfterPublishButLast(pend, first, n) == pend \cup (first..(first + n - 2))

\* for handler in handlers: self._pending_tasks.add(task)
PendingAfterPublish(pend, first, n) == pend \cup (first..(first + n - 1))

\* history record of one publish call, taken from the state it starts in
PubRecord(t, p, caller) ==
  [topic |-> t, payload |-> p, snapshot |-> GetOrEmpty(subscribers, t),
   caller |-> caller,
   excluded |-> {h \in Handlers : \E b \in BOOLEAN : <<t, h, b>> \in unsubbed},
   removed |-> {h \in Handlers : <<t, h, TRUE>> \in unsubbed},
   resubbed |-> {h \in Handlers : <<t, h>> \in resub},
   wiped |-> {x[2] : x \in {y \in wiped : y[1] = t}},
   loop |-> loop, rebound |-> Stale(lockObj, loopId, loop)]

\* ---------------------------------------------------------------- dispatch
HandlerToRunLive(task, subs) ==
  LET live == GetOrEmpty(subs, task.topic)
  IN IF live # <<>> THEN live[Len(live)] ELSE task.handler

\* the handler object bound into the _safe_dispatch coroutine at create_task
HandlerToRun(task, subs) == task.handler

\* await handler(payload)
PayloadToPass(task) == task.payload

StateAfterHandlerRetry(res, runs) ==
  IF res = "raised" /\ runs < 2 THEN "scheduled" ELSE "finished"

\* the task is over once the handler returned or its exception was caught
StateAfterHandler(res, runs) == "finished"

\* except Exception: logged, not re-raised
Escapes(res) == FALSE

FinishCancellingSiblings(ts, i, res) ==
  [j \in 1..Len(ts) |->
     IF j = i
     THEN [ts[j] EXCEPT !.state = StateAfterHandler(res, ts[j].runs),
                        !.hres = res, !.exc = Escapes(res)]
     ELSE IF res = "raised" /\ ts[j].pub = ts[i].pub /\ ts[j].state # "finished"
          THEN [ts[j] EXCEPT !.state = "finished", !.hres = "cancelled"]
          ELSE ts[j]]

\* completion of one _safe_dispatch task; no other task is affected
FinishTask(ts, i, res) ==
  [ts EXCEPT ![i] = [@ EXCEPT !.state = StateAfterHandler(res, ts[i].runs),
                              !.hres = res, !.exc = Escapes(res)]]

\* ---------------------------------------------------------------- wait_until_idle
LongestTimeout == CHOOSE x \in Timeouts : \A y \in Timeouts : y <= x

TimeCap == LongestTimeout + 1

IdleDecisionOnce(pend, elapsed, timeout, first) ==
  IF pend = {} \/ ~first THEN "true" ELSE "gather"

\* if not pending: return True / while pending: if elapsed > timeout: return False
IdleDecision(pend, elapsed, timeout, first) ==
  IF pend = {} THEN "true"
  ELSE IF elapsed > timeout THEN "false"
  ELSE "gather"

WaiterAfterDecision(w, d, pend) ==
  IF d = "gather"
  THEN [w EXCEPT !.pc = "gather", !.snap = pend, !.waited = TRUE]
  ELSE [w EXCEPT !.pc = "returned", !.result = d, !.snap = {},
                 !.timeout = 0, !.elapsed = 0, !.due = FALSE]

\* ---------------------------------------------------------------- initial state
Init ==
  /\ subscribers = <<>>
  /\ lock = NoOwner
  /\ tasks = <<>>
  /\ pending = {}
  /\ waiter = [pc |-> "idle", timeout |-> 0, elapsed |-> 0, snap |-> {},
               due |-> FALSE, result |-> "none", waited |-> FALSE]
  /\ pubs = <<>>
  /\ unsubbed = {}
  /\ resub = {}
  /\ calls = 0
  /\ loop = FirstLoop
  /\ lockObj = 0
  /\ loopId = NoLoop
  /\ unlocked = {}
  /\ wiped = {}
  /\ started = [s \in Stages |-> 0]
  /\ entities = {}
  /\ relationships = <<>>
  /\ handled = <<>>
  /\ store = 0
  /\ storeMade = 0
  /\ storeLog = <<>>
  /\ gDb = FALSE
  /\ gNodes = <<>>
  /\ gEdges = <<>>
  /\ gPubs = <<>>
  /\ gSeen = {}
  /\ batch = [pc |-> "idle", left |-> 0, unfinished |-> {}]
  /\ session = [pc |-> "idle", op |-> "none", fails |-> "none", nested |-> FALSE,
                log |-> <<>>, queue |-> <<>>, active |-> FALSE]

\* ---------------------------------------------------------------- actions
MainPublishes == Cardinality({k \in 1..Len(pubs) : pubs[k].caller = 0})

\* a handler that republishes on its own topic is not registered by the application
CanSubscribe(t, h) == ~(Behaviour(h) = "cascade" /\ t = CascadeTopic)

Subscribe(t, h) ==
  /\ lock = NoOwner
  /\ calls < MaxCalls
  /\ calls' = calls + 1
  /\ CanSubscribe(t, h)
  /\ subscribers' = SubscribeMap(subscribers, t, h)
  /\ lock' = ReleaseLock("main")
  /\ unsubbed' = unsubbed \ {<<t, h, b>> : b \in BOOLEAN}
  /\ resub' = IF Subscribed(GetOrEmpty(subscribers, t), h)
              THEN resub \cup {<<t, h>>} ELSE resub
  /\ EnsureLock
  /\ unlocked' = Mutated("subscribe", "main")
  /\ wiped' = wiped \ {<<t, h>>}
  /\ UNCHANGED <<tasks, pending, waiter, pubs, loop>>
  /\ UNCHANGED extVars

TasksAfterUnsubscribeCancelled(ts, t, h) ==
  [j \in 1..Len(ts) |->
     IF ts[j].state = "scheduled" /\ ts[j].topic = t /\ SameHandler(ts[j].handler, h)
     THEN [ts[j] EXCEPT !.state = "finished", !.hres = "cancelled"]
     ELSE ts[j]]

\* unsubscribe touches the subscriber list only: the tasks a publish has
\* created hold their handler and are left alone
TasksAfterUnsubscribe(ts, t, h) == ts

Unsubscribe(t, h) ==
  /\ lock = NoOwner
  /\ calls < MaxCalls
  /\ calls' = calls + 1
  /\ subscribers' = UnsubscribeMap(subscribers, t, h)
  /\ tasks' = TasksAfterUnsubscribe(tasks, t, h)
  /\ lock' = ReleaseLock("main")
  /\ unsubbed' = unsubbed \cup {<<t, h, Subscribed(GetOrEmpty(subscribers, t), h)>>}
  /\ resub' = resub \ {<<t, h>>}
  /\ EnsureLock
  /\ unlocked' = IF Subscribed(GetOrEmpty(subscribers, t), h)
                 THEN Mutated("unsubscribe", "main") ELSE unlocked
  /\ UNCHANGED <<pending, waiter, pubs, loop, wiped>>
  /\ UNCHANGED extVars

\* Payloads are opaque to the bus, so of the payloads not yet published only
\* the first is tried: any other choice is the same run with payloads renamed.
FreshEnough(p) ==
  \/ \E k \in 1..Len(pubs) : pubs[k].payload = p
  \/ \A j \in 1..Len(PayloadOrder) :
       PayloadOrder[j] = p =>
         \A m \in 1..(j - 1) : \E k \in 1..Len(pubs) : pubs[k].payload = PayloadOrder[m]

Publish(t, p) ==
  /\ lock = NoOwner
  /\ MainPublishes < MaxPublishes
  /\ FreshEnough(p)
  /\ LET hs == Snapshot(subscribers, t)
         k == Len(pubs) + 1
     IN /\ tasks' = tasks \o NewTasks(k, t, p, hs)
        /\ pending' = PendingAfterPublish(pending, Len(tasks) + 1, Len(hs))
        /\ pubs' = Append(pubs, PubRecord(t, p, 0))
        /\ unlocked' = IF hs # <<>> THEN Mutated("publish", "main") ELSE unlocked
  /\ subscribers' = SubsAfterPublish(subscribers, t)
  /\ lock' = ReleaseLock("main")
  /\ EnsureLock
  /\ UNCHANGED <<waiter, unsubbed, resub, calls, loop, wiped>>
  /\ UNCHANGED extVars

\* self._subscribers.clear()
SubsAfterClear(subs) == <<>>

\* every <<topic, handler>> of the subscriber map
Subscriptions(subs) ==
  UNION {{<<t, subs[t][j]>> : j \in 1..Len(subs[t])} : t \in DOMAIN subs}

\* clear() touches neither the tasks nor the pending set
TasksAfterClear(ts) == ts

PendingAfterClearReset(pend) == {}

PendingAfterClear(pend) == pend

\* clear(): self._subscribers.clear(), synchronous, takes no lock
Clear ==
  /\ calls < MaxCalls
  /\ calls' = calls + 1
  /\ subscribers' = SubsAfterClear(subscribers)
  /\ tasks' = TasksAfterClear(tasks)
  /\ pending' = PendingAfterClear(pending)
  /\ unlocked' = Mutated("clear", "main")
  /\ wiped' = wiped \cup Subscriptions(subscribers)
  /\ UNCHANGED <<lock, waiter, pubs, unsubbed, resub, loop, lockVars>>
  /\ UNCHANGED extVars

\* does the handler end before it ever suspends?
Immediate(h) == Behaviour(h) = "raise"

Outcome(h) == IF Behaviour(h) = "raise" THEN "raised" ELSE "ok"

\* handle_data_ingested of the extraction and metadata stages returns before
\* its first await when the document has no content
ReturnsAtOnce(h, p) ==
  /\ h \in BoundObjects
  /\ MethodOf(h) \in {"extraction.handle_data_ingested", "metadata.handle_data_ingested"}
  /\ IsBlank(Content(p))

\* first run of a _safe_dispatch task: the handler is called and runs up to
\* its first suspension, or to its end when it never suspends
TaskStart(i) ==
  /\ tasks[i].state = "scheduled"
  /\ LET h == HandlerToRun(tasks[i], subscribers)
         ts == [tasks EXCEPT ![i] =
                  [@ EXCEPT !.state = "running", !.runs = @ + 1,
                            !.ran = h, !.got = PayloadToPass(tasks[i])]]
     IN tasks' = IF Immediate(h) \/ ReturnsAtOnce(h, PayloadToPass(tasks[i]))
                 THEN FinishTask(ts, i, Outcome(h)) ELSE ts
  /\ lock' = LockDuringDispatch(lock, i)
  /\ UNCHANGED <<subscribers, pending, waiter, pubs, unsubbed, resub, calls,
                 loop, lockVars, unlocked, wiped>>
  /\ UNCHANGED extVars

\* the running handler of task i awaits bus.publish(t, payload) and returns
PublishFromTask(i, t) ==
  /\ lock = NoOwner
  /\ LET hs == Snapshot(subscribers, t)
         k == Len(pubs) + 1
     IN /\ tasks' = FinishTask(tasks \o NewTasks(k, t, tasks[i].got, hs),
                               i, Outcome(tasks[i].ran))
        /\ pending' = PendingAfterPublish(pending, Len(tasks) + 1, Len(hs))
        /\ pubs' = Append(pubs, PubRecord(t, tasks[i].got, i))
        /\ unlocked' = IF hs # <<>> THEN Mutated("publish", "task") ELSE unlocked
  /\ subscribers' = SubsAfterPublish(subscribers, t)
  /\ lock' = ReleaseLock(i)
  /\ EnsureLock

\* the running handler of task i returns (or raises) without publishing
ReturnFromTask(i) ==
  /\ tasks' = FinishTask(tasks, i, Outcome(tasks[i].ran))
  /\ UNCHANGED <<subscribers, lock, pending, pubs, lockVars, unlocked>>

\* a suspended handler is resumed and runs to its end; a cascading handler
\* awaits bus.publish(OutTopic, payload) on the way, as the graph stage does
\* after its sleep; then the task ends
TaskFinish(i) ==
  /\ tasks[i].state = "running"
  /\ Behaviour(tasks[i].ran) \notin {"hang", "extract"}
  /\ IF Behaviour(tasks[i].ran) = "cascade"
     THEN PublishFromTask(i, OutTopic(tasks[i].ran))
     ELSE ReturnFromTask(i)
  /\ UNCHANGED <<waiter, unsubbed, resub, calls, loop, wiped>>
  /\ UNCHANGED extVars

\* a suspended stage handler takes its path that publishes nothing and returns
TaskSkip(i) ==
  /\ tasks[i].state = "running"
  /\ Behaviour(tasks[i].ran) = "cascade"
  /\ tasks[i].ran \in BoundObjects
  /\ MaySkip(MethodOf(tasks[i].ran))
  /\ ReturnFromTask(i)
  /\ UNCHANGED <<waiter, unsubbed, resub, calls, loop, wiped>>
  /\ UNCHANGED extVars

\* ---------------------------------------------------------------- extraction stage
\* What the environment gives one run of _extract_entities: whether an LLM
\* provider is available, whether the prompt renders, and what the LLM call
\* comes back with (an exception, also after its retries; None; a JSON value
\* that is not a list; a list of raw entities).
RawEntities == {"valid", "notdict"}

RawLists == {<<>>} \cup {<<a>> : a \in RawEntities}
              \cup {<<a, b>> : a \in RawEntities, b \in RawEntities}

LlmResults ==
  {[kind |-> k, items |-> <<>>] : k \in {"raise", "none", "dict"}}
    \cup {[kind |-> "list", items |-> l] : l \in RawLists}

ExtractInputs == [provider : BOOLEAN, render : {"ok", "raise"}, llm : LlmResults]

\* await self.ensure_llm_provider()
EnsureLlmProvider(in) == in.provider

\* await call_llm_and_parse_json(...)
CallLlm(in) == in.llm

\* isinstance(entity, dict) and "type" in entity and "text" in entity
ValidEntity(e) == e = "valid"

\* the normalisation loop keeps the valid entities, in order
Normalise(items) == SelectSeq(items, ValidEntity)

\* _extract_entities: every failure path returns []
ExtractEntities(in) ==
  IF ~EnsureLlmProvider(in) THEN <<>>
  ELSE IF in.render = "raise" THEN <<>>
  ELSE IF CallLlm(in).kind = "raise" THEN <<>>
  ELSE IF CallLlm(in).kind = "none" THEN <<>>
  ELSE IF CallLlm(in).kind # "list" THEN <<>>
  ELSE Normalise(CallLlm(in).items)

ShouldPublishNotNone(ents) == TRUE

\* if entities:
ShouldPublish(ents) == ents # <<>>

\* the suspended handle_data_ingested of the extraction stage gets the result
\* of _extract_entities and publishes entity.extracted or only logs
ExtractionFinish(i, in) ==
  /\ tasks[i].state = "running"
  /\ Behaviour(tasks[i].ran) = "extract"
  /\ IF ShouldPublish(ExtractEntities(in))
     THEN PublishFromTask(i, OutTopic(tasks[i].ran))
     ELSE ReturnFromTask(i)
  /\ UNCHANGED <<waiter, unsubbed, resub, calls, loop, wiped>>
  /\ UNCHANGED extVars

\* ---------------------------------------------------------------- stage start
RECURSIVE SubscribeAll(_, _, _)
\* the awaits of start(), each an uncontended subscribe that does not suspend
SubscribeAll(subs, pairs, n) ==
  IF pairs = <<>> THEN subs
  ELSE SubscribeAll(SubscribeMap(subs, Head(pairs)[1], Bound(Head(pairs)[2], n)),
                    Tail(pairs), n)

\* AppState.initialize: if self._started: return
StartReturnsEarly(s) == s = "appstate" /\ started[s] > 0

\* start() of a stage, or AppState.initialize(): the n-th call subscribes the
\* n-th bound-method object of each of the stage's handlers
StartStage(s) ==
  /\ lock = NoOwner
  /\ calls < MaxCalls
  /\ calls' = calls + 1
  /\ started' = [started EXCEPT ![s] = @ + 1]
  /\ IF StartReturnsEarly(s)
     THEN UNCHANGED <<subscribers, lock, lockVars, unsubbed, wiped>>
     ELSE /\ subscribers' = SubscribeAll(subscribers, StageSubs(s), started[s] + 1)
          /\ lock' = ReleaseLock("main")
          /\ EnsureLock
          /\ unsubbed' = {x \in unsubbed :
                            \A j \in 1..Len(StageSubs(s)) :
                              ~(x[1] = StageSubs(s)[j][1]
                                /\ SameHandler(x[2], Bound(StageSubs(s)[j][2], 1)))}
          /\ wiped' = {x \in wiped :
                         \A j \in 1..Len(StageSubs(s)) :
                           ~(x[1] = StageSubs(s)[j][1]
                             /\ SameHandler(x[2], Bound(StageSubs(s)[j][2], 1)))}
  /\ unlocked' = unlocked
  /\ UNCHANGED <<tasks, pending, waiter, pubs, resub, loop,
                 entities, relationships, handled, appVars>>

\* unsubscribe(topic, self.handle_x) on a started stage: the handler is given
\* as one of the bound-method objects made so far or as a new one
UnsubscribeStage(s, j, n) ==
  /\ started[s] > 0
  /\ n <= started[s] + 1
  /\ Unsubscribe(StageSubs(s)[j][1], Bound(StageSubs(s)[j][2], n))

\* task.add_done_callback(self._pending_tasks.discard)
PendingAfterDone(pend, i) == pend \ {i}

\* The done callbacks of an ended task, run by the loop back to back:
\* self._pending_tasks.discard (registered by publish) and then the callback
\* of a gather that awaits the task.
DoneCallback(i) ==
  /\ tasks[i].state = "finished"
  /\ i \in pending
  /\ pending' = PendingAfterDone(pending, i)
  /\ waiter' = [waiter EXCEPT !.snap = @ \ {i}]
  /\ unlocked' = Mutated("done", "callback")
  /\ UNCHANGED <<subscribers, lock, tasks, pubs, unsubbed, resub, calls,
                 loop, lockVars, wiped>>
  /\ UNCHANGED extVars

\* wait_until_idle(timeout) up to its first await
WaitCall(to) ==
  /\ waiter.pc = "idle"
  /\ waiter' = WaiterAfterDecision(
                 [waiter EXCEPT !.timeout = to, !.elapsed = 0],
                 IdleDecision(pending, 0, to, TRUE), pending)
  /\ UNCHANGED <<subscribers, lock, tasks, pending, pubs, unsubbed, resub, calls,
                 loop, lockVars, unlocked, wiped>>
  /\ UNCHANGED extVars

\* await asyncio.gather(*list(self._pending_tasks), return_exceptions=True)
\* resumes once the done callback of every gathered task has run
GatherDone ==
  /\ waiter.pc = "gather"
  /\ waiter.snap = {}
  /\ waiter' = [waiter EXCEPT !.pc = "sleep", !.due = FALSE, !.snap = {}]
  /\ UNCHANGED <<subscribers, lock, tasks, pending, pubs, unsubbed, resub, calls,
                 loop, lockVars, unlocked, wiped>>
  /\ UNCHANGED extVars

\* await asyncio.sleep(0.1) is over; the while condition and the timeout
\* test run in the same step
SleepDone ==
  /\ waiter.pc = "sleep"
  /\ waiter.due
  /\ waiter' = WaiterAfterDecision(
                 waiter,
                 IdleDecision(pending, waiter.elapsed, waiter.timeout, FALSE),
                 pending)
  /\ UNCHANGED <<subscribers, lock, tasks, pending, pubs, unsubbed, resub, calls,
                 loop, lockVars, unlocked, wiped>>
  /\ UNCHANGED extVars

\* the loop clock advances by one sleep slice (0.1 s); the elapsed time is
\* only ever compared with the timeout, so it is kept up to TimeCap
Tick ==
  /\ waiter.pc \in {"gather", "sleep"}
  /\ (waiter.elapsed < TimeCap \/ (waiter.pc = "sleep" /\ ~waiter.due))
  /\ waiter' = [waiter EXCEPT
                  !.elapsed = IF @ < TimeCap THEN @ + 1 ELSE @,
                  !.due = IF waiter.pc = "sleep" THEN TRUE ELSE @]
  /\ UNCHANGED <<subscribers, lock, tasks, pending, pubs, unsubbed, resub, calls,
                 loop, lockVars, unlocked, wiped>>
  /\ UNCHANGED extVars

\* task.cancel() for every task of the loop: CancelledError is not an
\* Exception, so _safe_dispatch does not catch it and the task ends cancelled
CancelAll(ts) ==
  [j \in 1..Len(ts) |->
     IF ts[j].state = "finished" THEN ts[j]
     ELSE [ts[j] EXCEPT !.state = "finished", !.hres = "cancelled"]]

\* The thread of _run_async_init is done with its loop: the loop's tasks are
\* cancelled and gathered, which runs their done callbacks, the loop is
\* closed, and from then on the bus is called from the UI's loop.
SwitchLoop ==
  /\ loop = FirstLoop
  /\ loop' = CHOOSE l \in Loops : l # FirstLoop
  /\ tasks' = CancelAll(tasks)
  /\ pending' = {}
  /\ unlocked' = IF pending # {} THEN Mutated("done", "callback") ELSE unlocked
  /\ UNCHANGED <<subscribers, lock, waiter, pubs, unsubbed, resub, calls,
                 lockVars, wiped>>
  /\ UNCHANGED extVars

\* The bus without a caller of wait_until_idle.  wait_until_idle only reads
\* the pending set, so leaving it out changes no state of the bus.
Next ==
  \/ \E t \in Topics, h \in Handlers : Subscribe(t, h)
  \/ \E t \in Topics, h \in Handlers : Unsubscribe(t, h)
  \/ \E t \in Topics, p \in Payloads : Publish(t, p)
  \/ Clear
  \/ \E i \in 1..Len(tasks) : TaskStart(i)
  \/ \E i \in 1..Len(tasks) : TaskFinish(i)
  \/ \E i \in 1..Len(tasks) : DoneCallback(i)

Spec == Init /\ [][Next]_vars

\* The bus with one caller of wait_until_idle, as the pipeline drives it: the
\* stages subscribe in their start() before the first event is published
\* (extractor/main.py:183-296), then events flow and the caller drains.
NextIdle ==
  \/ \E t \in Topics, h \in Handlers : pubs = <<>> /\ Subscribe(t, h)
  \/ \E t \in Topics : Publish(t, "p1")
  \/ \E i \in 1..Len(tasks) : TaskStart(i)
  \/ \E i \in 1..Len(tasks) : TaskFinish(i)
  \/ \E i \in 1..Len(tasks) : DoneCallback(i)
  \/ \E to \in Timeouts : WaitCall(to)
  \/ GatherDone
  \/ SleepDone
  \/ Tick

IdleSpec == Init /\ [][NextIdle]_vars

\* The bus driven from two loops in turn: the stages subscribe (and events may
\* flow) under the loop of the initialisation thread, then under the UI's loop.
NextLoops ==
  \/ \E t \in Topics, h \in Handlers : Subscribe(t, h)
  \/ \E t \in Topics : Publish(t, "p1")
  \/ \E i \in 1..Len(tasks) : TaskStart(i)
  \/ \E i \in 1..Len(tasks) : TaskFinish(i)
  \/ \E i \in 1..Len(tasks) : DoneCallback(i)
  \/ SwitchLoop

LoopSpec == Init /\ [][NextLoops]_vars

\* a document is ingested once the cascade of the one before has drained
Ingest(d) == pending = {} /\ Publish(TOPIC_DATA_INGESTED, d)

\* The pipeline as init_services and the ingest controller drive it: stages
\* are started (any of them, any number of times) before the first document
\* is ingested, then the events cascade from stage to stage.
NextPipe ==
  \/ \E s \in Stages : pubs = <<>> /\ StartStage(s)
  \/ \E d \in Docs : Ingest(d)
  \/ \E i \in 1..Len(tasks) : TaskStart(i)
  \/ \E i \in 1..Len(tasks) : TaskFinish(i)
  \/ \E i \in 1..Len(tasks) : TaskSkip(i)
  \/ \E i \in 1..Len(tasks), in \in ExtractInputs : ExtractionFinish(i, in)
  \/ \E i \in 1..Len(tasks) : DoneCallback(i)

PipeSpec == Init /\ [][NextPipe]_vars

\* Handlers given to the bus as bound methods: stages are started and their
\* handlers unsubscribed, by any of the bound-method objects, before a
\* document is ingested.
NextHandlers ==
  \/ \E s \in Stages : pubs = <<>> /\ StartStage(s)
  \/ \E s \in Stages : \E j \in 1..Len(StageSubs(s)), n \in 1..(MaxCalls + 1) :
       pubs = <<>> /\ UnsubscribeStage(s, j, n)
  \/ Ingest("doc")
  \/ \E i \in 1..Len(tasks) : TaskStart(i)
  \/ \E i \in 1..Len(tasks) : TaskFinish(i)
  \/ \E i \in 1..Len(tasks) : TaskSkip(i)
  \/ \E i \in 1..Len(tasks), in \in ExtractInputs : ExtractionFinish(i, in)
  \/ \E i \in 1..Len(tasks) : DoneCallback(i)

HandlerSpec == Init /\ [][NextHandlers]_vars

\* ------------------------------------------------- DuckDBPersistenceService
\* events handled by one persistence service and rows in a relationships table
MaxHandled == 3

\* SQL NULL, Python None
NULL == "NULL"

\* a value Python takes as true: neither None nor the empty string
Truthy(x) == x # NULL /\ x # ""

\* the SQL comparison a = b as a WHERE clause takes it: never true of a NULL
SqlEq(a, b) == a # NULL /\ b # NULL /\ a = b

Ann == [type |-> "PERSON", text |-> "Ann"]
Acme == [type |-> "ORG", text |-> "Acme"]

\* entity_id = f"{entity_type}:{label}"
EntityId(e) == e.type \o ":" \o e.text

\* entity.extracted events, by the name of the event: payload["entities"]
EntityEvents == {"e.none", "e.ann", "e.both", "e.twice"}

EntitiesOf(ev) ==
  CASE ev = "e.ann" -> <<Ann>>
    [] ev = "e.both" -> <<Ann, Acme>>
    [] ev = "e.twice" -> <<Acme, Acme>>
    [] OTHER -> <<>>

NodeOf(e) == [id |-> EntityId(e), type |-> e.type, label |-> e.text]

WorksAt(doc) ==
  [source |-> EntityId(Ann), target |-> EntityId(Acme), type |-> "WORKS_AT",
   doc_id |-> doc]

\* graph.updated events, by the name of the event: payload["graph_stats"];
\* edge.get("doc_id") is None for an edge without a doc_id
GraphEvents == {"g.empty", "g.nodes", "g.doc", "g.nodoc", "g.dangling", "g.nolabel"}

GraphStatsOf(ev) ==
  CASE ev = "g.nodes" -> [nodes |-> <<NodeOf(Ann), NodeOf(Acme)>>, edges |-> <<>>]
    [] ev = "g.doc" -> [nodes |-> <<NodeOf(Ann), NodeOf(Acme)>>,
                        edges |-> <<WorksAt("d1")>>]
    [] ev = "g.nodoc" -> [nodes |-> <<NodeOf(Ann), NodeOf(Acme)>>,
                          edges |-> <<WorksAt(NULL)>>]
    [] ev = "g.dangling" -> [nodes |-> <<NodeOf(Ann)>>,
                             edges |-> <<WorksAt("d1")>>]
    [] ev = "g.nolabel" -> [nodes |-> <<[NodeOf(Ann) EXCEPT !.label = NULL]>>,
                            edges |-> <<>>]
    [] OTHER -> [nodes |-> <<>>, edges |-> <<>>]

\* SELECT id FROM entities WHERE id = ?
EntityExists(tbl, id) == \E r \in tbl : SqlEq(r.id, id)

\* UPDATE entities SET type, label WHERE id = ?  or  INSERT INTO entities;
\* the columns attributes_json, created_at and updated_at are left out
UpsertEntity(tbl, row) ==
  IF EntityExists(tbl, row.id)
  THEN {IF SqlEq(r.id, row.id) THEN row ELSE r : r \in tbl}
  ELSE tbl \cup {row}

RECURSIVE PersistEntities(_, _)
\* the loop of handle_entity_extracted over payload["entities"]
PersistEntities(tbl, ents) ==
  IF ents = <<>> THEN tbl
  ELSE PersistEntities(UpsertEntity(tbl, NodeOf(Head(ents))), Tail(ents))

RECURSIVE PersistNodes(_, _)
\* the loop of handle_graph_updated over graph_stats["nodes"]
PersistNodes(tbl, nodes) ==
  IF nodes = <<>> THEN tbl
  ELSE LET n == Head(nodes)
       IN PersistNodes(IF Truthy(n.id) /\ Truthy(n.type) /\ Truthy(n.label)
                       THEN UpsertEntity(tbl, n) ELSE tbl,
                       Tail(nodes))

\* SELECT id FROM relationships
\* WHERE source = ? AND target = ? AND type = ? AND doc_id = ?
RelationshipExists(rels, e) ==
  \E k \in 1..Len(rels) :
    /\ SqlEq(rels[k].source, e.source)
    /\ SqlEq(rels[k].target, e.target)
    /\ SqlEq(rels[k].type, e.type)
    /\ SqlEq(rels[k].doc_id, e.doc_id)

RECURSIVE PersistEdges(_, _, _)
\* the loop of handle_graph_updated over graph_stats["edges"]: an edge whose
\* source or target is not an entity row is skipped, one that is found is
\* not inserted again
PersistEdges(tbl, rels, edges) ==
  IF edges = <<>> THEN rels
  ELSE LET e == Head(edges)
           insert == /\ Truthy(e.source) /\ Truthy(e.target) /\ Truthy(e.type)
                     /\ EntityExists(tbl, e.source)
                     /\ EntityExists(tbl, e.target)
                     /\ ~RelationshipExists(rels, e)
       IN PersistEdges(tbl, IF insert THEN Append(rels, e) ELSE rels, Tail(edges))

\* if not nodes and not edges: return  (an empty graph_stats gives both empty)
GraphReturnsEarly(ev) ==
  GraphStatsOf(ev).nodes = <<>> /\ GraphStatsOf(ev).edges = <<>>

\* handle_entity_extracted run on an event: it has no await, so it runs from
\* its first line to its commit in one step
HandleEntityExtracted(ev) ==
  /\ Len(handled) < MaxHandled
  /\ handled' = Append(handled, ev)
  /\ entities' = PersistEntities(entities, EntitiesOf(ev))
  /\ UNCHANGED <<subscribers, lock, tasks, pending, waiter, pubs, unsubbed,
                 resub, calls, loop, lockVars, unlocked, wiped, started,
                 relationships, appVars>>

\* handle_graph_updated run on an event: the nodes, then the edges, the
\* commit, and the publish of the confirmation on logs.event
HandleGraphUpdated(ev) ==
  /\ Len(handled) < MaxHandled
  /\ lock = NoOwner
  /\ handled' = Append(handled, ev)
  /\ entities' = PersistNodes(entities, GraphStatsOf(ev).nodes)
  /\ relationships' = PersistEdges(PersistNodes(entities, GraphStatsOf(ev).nodes),
                                   relationships, GraphStatsOf(ev).edges)
  /\ IF GraphReturnsEarly(ev)
     THEN UNCHANGED <<tasks, pending, pubs, lockVars>>
     ELSE LET hs == Snapshot(subscribers, TOPIC_LOGS_EVENT)
          IN /\ tasks' = tasks \o NewTasks(Len(pubs) + 1, TOPIC_LOGS_EVENT, ev, hs)
             /\ pending' = PendingAfterPublish(pending, Len(tasks) + 1, Len(hs))
             /\ pubs' = Append(pubs, PubRecord(TOPIC_LOGS_EVENT, ev, 0))
             /\ EnsureLock
  /\ UNCHANGED <<subscribers, lock, waiter, unsubbed, resub, calls, loop,
                 unlocked, wiped, started, appVars>>

\* The persistence service given events one after the other, in any order
\* and any number of times, as the bus delivers them to its two handlers.
NextDb ==
  \/ \E ev \in EntityEvents : HandleEntityExtracted(ev)
  \/ \E ev \in GraphEvents : HandleGraphUpdated(ev)

DbSpec == Init /\ [][NextDb]_vars

\* the bus state the stages' own state is no part of
busVars == <<subscribers, lock, tasks, pending, waiter, pubs, unsubbed, resub,
             calls, loop, lockVars, unlocked, wiped>>

\* ------------------------------------------------- GraphAnalysisService
\* events handled by one graph service
MaxGraphEvents == 2

\* relationship.found events, by the name of the event: payload["relationships"]
RelEvents == {"r.none", "r.works", "r.nosrc"}

RelationshipsOf(ev) ==
  CASE ev = "r.works" ->
         <<[source |-> "Ann", target |-> "Acme", relation_type |-> "WORKS_AT",
            source_type |-> "PERSON", target_type |-> NULL]>>
    [] ev = "r.nosrc" ->
         <<[source |-> "", target |-> "Acme", relation_type |-> "MENTIONS",
            source_type |-> NULL, target_type |-> "ORG"]>>
    [] OTHER -> <<>>

\* payload.get("doc_id", "unknown")
DocIdOf(ev) == IF ev \in {"e.none", "r.none"} THEN "unknown" ELSE "d1"

\* the keys of the dict, in insertion order
NodeIds(nodes) == {nodes[j].id : j \in 1..Len(nodes)}

DictAddAlways(nodes, n) ==
  IF n.id \in NodeIds(nodes)
  THEN [j \in 1..Len(nodes) |-> IF nodes[j].id = n.id THEN n ELSE nodes[j]]
  ELSE Append(nodes, n)

\* if id and id not in self._nodes: self._nodes[id] = {...}
DictAdd(nodes, n) ==
  IF Truthy(n.id) /\ n.id \notin NodeIds(nodes) THEN Append(nodes, n) ELSE nodes

\* x or "Unknown"
OrUnknown(x) == IF Truthy(x) THEN x ELSE "Unknown"

RECURSIVE AddEntityNodes(_, _)
\* the in-memory loop of handle_entity_extracted: the entity's text is its id
AddEntityNodes(nodes, ents) ==
  IF ents = <<>> THEN nodes
  ELSE AddEntityNodes(
         DictAdd(nodes, [id |-> Head(ents).text, type |-> Head(ents).type,
                         label |-> Head(ents).text]),
         Tail(ents))

RECURSIVE AddRelNodes(_, _)
\* the in-memory loop of handle_relationship_found, its nodes
AddRelNodes(nodes, rels) ==
  IF rels = <<>> THEN nodes
  ELSE LET r == Head(rels)
           withSource == DictAdd(nodes, [id |-> r.source,
                                         type |-> OrUnknown(r.source_type),
                                         label |-> r.source])
           withTarget == DictAdd(withSource, [id |-> r.target,
                                              type |-> OrUnknown(r.target_type),
                                              label |-> r.target])
       IN AddRelNodes(withTarget, Tail(rels))

EdgeOf(r, doc) ==
  [source |-> r.source, target |-> r.target, type |-> r.relation_type, doc_id |-> doc]

\* self._edges.append(edge) for every relationship of the event
AddRelEdges(edges, rels, doc) ==
  edges \o [j \in 1..Len(rels) |-> EdgeOf(rels[j], doc)]

RECURSIVE AddReferenced(_, _)
\* every source and target of an edge that is no node yet becomes a node of
\* type Unknown
AddReferenced(nodes, edges) ==
  IF edges = <<>> THEN nodes
  ELSE LET e == Head(edges)
           withSource == DictAdd(nodes, [id |-> e.source, type |-> "Unknown",
                                         label |-> e.source])
           withTarget == DictAdd(withSource, [id |-> e.target, type |-> "Unknown",
                                              label |-> e.target])
       IN AddReferenced(withTarget, Tail(edges))

RECURSIVE RowsToNodes(_)
\* SELECT id, type, label, attributes_json FROM entities, in the order the
\* rows come
RowsToNodes(tbl) ==
  IF tbl = {} THEN <<>>
  ELSE LET r == CHOOSE x \in tbl : TRUE
       IN <<[id |-> r.id, type |-> OrUnknown(r.type),
             label |-> IF Truthy(r.label) THEN r.label ELSE r.id]>>
          \o RowsToNodes(tbl \ {r})

\* SELECT ... FROM relationships [WHERE doc_id = ?]
RowsToEdges(rels, doc) ==
  IF Truthy(doc) /\ doc # "unknown"
  THEN SelectSeq(rels, LAMBDA e : SqlEq(e.doc_id, doc))
  ELSE rels

\* the list object self._edges, as a value held by a payload
EdgesRef == "self._edges"

\* what a holder of the payload's edges reads now: the list object itself when
\* the payload was given self._edges, the rows otherwise
Deref(edges) == IF edges = EdgesRef THEN gEdges ELSE edges

\* graph_stats of the graph.updated the handler publishes: with a database
\* the rows just read, without one a new list of the node dicts and the list
\* self._edges itself; sent is what the edges were when it was published
GraphStats(ev, nodes, edges) ==
  IF gDb
  THEN [cause |-> ev, doc_id |-> DocIdOf(ev),
        node_count |-> Cardinality(entities),
        edge_count |-> Len(RowsToEdges(relationships, DocIdOf(ev))),
        nodes |-> RowsToNodes(entities),
        edges |-> RowsToEdges(relationships, DocIdOf(ev)),
        sent |-> RowsToEdges(relationships, DocIdOf(ev))]
  ELSE [cause |-> ev, doc_id |-> DocIdOf(ev),
        node_count |-> Len(nodes), edge_count |-> Len(edges),
        nodes |-> nodes, edges |-> EdgesRef, sent |-> edges]

\* await self.event_bus.publish(topic, payload) by a handler, on the bus
BusPublish(t, p) ==
  LET hs == Snapshot(subscribers, t)
  IN /\ lock = NoOwner
     /\ tasks' = tasks \o NewTasks(Len(pubs) + 1, t, p, hs)
     /\ pending' = PendingAfterPublish(pending, Len(tasks) + 1, Len(hs))
     /\ pubs' = Append(pubs, PubRecord(t, p, 0))
     /\ EnsureLock

\* graph_service.update_db_connection(db_conn)
UpdateDbConnection ==
  /\ ~gDb
  /\ gDb' = TRUE
  /\ UNCHANGED <<busVars, started, entities, relationships, handled, storeVars,
                 gNodes, gEdges, gPubs, gSeen, runVars>>

\* handle_entity_extracted once its sleep is over: the nodes are added and
\* graph.updated is published, with no await in between
GraphHandleEntityExtracted(ev) ==
  /\ Len(gPubs) < MaxGraphEvents
  /\ gNodes' = IF gDb THEN gNodes ELSE AddEntityNodes(gNodes, EntitiesOf(ev))
  /\ gPubs' = Append(gPubs, GraphStats(ev, gNodes', gEdges))
  /\ BusPublish(TOPIC_GRAPH_UPDATED, ev)
  /\ UNCHANGED <<subscribers, lock, waiter, unsubbed, resub, calls, loop,
                 unlocked, wiped, started, entities, relationships, handled,
                 storeVars, gDb, gEdges, gSeen, runVars>>

\* handle_relationship_found once its sleep is over
GraphHandleRelationshipFound(ev) ==
  /\ Len(gPubs) < MaxGraphEvents
  /\ gEdges' = IF gDb THEN gEdges
               ELSE AddRelEdges(gEdges, RelationshipsOf(ev), DocIdOf(ev))
  /\ gNodes' = IF gDb THEN gNodes
               ELSE AddReferenced(AddRelNodes(gNodes, RelationshipsOf(ev)), gEdges')
  /\ gPubs' = Append(gPubs, GraphStats(ev, gNodes', gEdges'))
  /\ BusPublish(TOPIC_GRAPH_UPDATED, ev)
  /\ UNCHANGED <<subscribers, lock, waiter, unsubbed, resub, calls, loop,
                 unlocked, wiped, started, entities, relationships, handled,
                 storeVars, gDb, gSeen, runVars>>

\* the entity.extracted event the graph service was given is handled by the
\* persistence service as well, before or after
PersistEntityExtracted(ev) ==
  /\ \E k \in 1..Len(gPubs) : gPubs[k].cause = ev
  /\ \A k \in 1..Len(handled) : handled[k] # ev
  /\ HandleEntityExtracted(ev)

\* handle_graph_updated of the persistence service run on the k-th payload
\* the graph service published, reading the payload as it is by then; its
\* tasks are created in the order of the publishes and it writes before its
\* first await, so it handles the payloads in that order
PersistGraphUpdated(k) ==
  /\ k \notin gSeen
  /\ \A j \in 1..(k - 1) : j \in gSeen
  /\ gSeen' = gSeen \cup {k}
  /\ LET nodes == gPubs[k].nodes
         edges == Deref(gPubs[k].edges)
     IN /\ entities' = PersistNodes(entities, nodes)
        /\ relationships' = PersistEdges(PersistNodes(entities, nodes),
                                         relationships, edges)
        /\ IF nodes = <<>> /\ edges = <<>>
           THEN UNCHANGED <<tasks, pending, pubs, lockVars>>
           ELSE BusPublish(TOPIC_LOGS_EVENT, gPubs[k].cause)
  /\ UNCHANGED <<subscribers, lock, waiter, unsubbed, resub, calls, loop,
                 unlocked, wiped, started, handled, storeVars,
                 gDb, gNodes, gEdges, gPubs, runVars>>

\* The graph service and the persistence service as init_services builds
\* them (the graph service without a database connection, which it may be
\* given later), handed entity.extracted and relationship.found events.
NextGraph ==
  \/ \E ev \in EntityEvents : GraphHandleEntityExtracted(ev)
  \/ \E ev \in RelEvents : GraphHandleRelationshipFound(ev)
  \/ \E ev \in EntityEvents : PersistEntityExtracted(ev)
  \/ \E k \in 1..Len(gPubs) : PersistGraphUpdated(k)
  \/ UpdateDbConnection

GraphSpec == Init /\ [][NextGraph]_vars

\* ------------------------------------------------- SessionManager and the shell indicator

\* the events that set project_operation_active[0]
StartEvents == {"project.opening.start", "session.restore.start", "project.saving.start"}

\* the events that clear project_operation_active[0]
ResetEvents == {"project.opened", "session.restore.end", "project.saving.end"}

\* the operations of SessionManager that publish indicator events
SessionOps == {"open_project", "restore_session", "save_project"}

\* what can go wrong inside an operation: for open_project the file is
\* missing, the file is the current database, connecting or migrating raises,
\* a restore step raises, the counts read for project.opened raise; for
\* restore_session the guarded cleanup raises or an unguarded step raises; for
\* save_project storing the config raises
SessionFailures(op) ==
  CASE op = "open_project" ->
         {"none", "missing_file", "same_file", "connect", "stale", "restore_step", "emit"}
    [] op = "restore_session" -> {"none", "stale", "restore_step"}
    [] OTHER -> {"none", "config"}

\* project_operation_active[0] after the shell's handler of topic t has run
IndicatorAfter(t, active) ==
  IF t \in StartEvents THEN TRUE
  ELSE IF t \in ResetEvents THEN FALSE
  ELSE active

\* await self.event_bus.publish(t, ...): the event is published and a task
\* for the shell's handler of t is created
SessionPublish(s, t) ==
  [s EXCEPT !.log = Append(@, t), !.queue = Append(@, t)]

\* where restore_session goes when it has returned: back into open_project,
\* which returns at once when the file was the current database and emits
\* project.opened otherwise
AfterRestore(s) ==
  IF ~s.nested THEN "returned"
  ELSE IF s.fails = "same_file" THEN "returned"
  ELSE "open.emit"

\* a caller invokes one operation; f is what will go wrong inside it
SessionCall(op, f) ==
  /\ session.pc = "idle"
  /\ session' = [session EXCEPT
                   !.op = op, !.fails = f,
                   !.pc = CASE op = "open_project" -> "open.start"
                            [] op = "restore_session" -> "restore.start"
                            [] OTHER -> "save.start"]
  /\ UNCHANGED <<busVars, started, entities, relationships, handled, storeVars,
                 graphVars, batch>>

\* open_project: publish("project.opening.start", {})
OpenStart ==
  /\ session.pc = "open.start"
  /\ session' = [SessionPublish(session, "project.opening.start") EXCEPT
                   !.pc = "open.check"]
  /\ UNCHANGED <<busVars, started, entities, relationships, handled, storeVars,
                 graphVars, batch>>

\* open_project: a missing file is logged and the method returns; the current
\* database is restored and the method returns; any other file is connected
OpenCheck ==
  /\ session.pc = "open.check"
  /\ session' = [session EXCEPT
                   !.pc = CASE session.fails = "missing_file" -> "returned"
                            [] session.fails = "same_file" -> "restore.start"
                            [] OTHER -> "open.connect",
                   !.nested = session.fails = "same_file"]
  /\ UNCHANGED <<busVars, started, entities, relationships, handled, storeVars,
                 graphVars, batch>>

\* open_project: connect, create the schema, extract the config, migrate and
\* update the services; an exception is logged by the except clause, which
\* publishes nothing, and the method returns
OpenConnect ==
  /\ session.pc = "open.connect"
  /\ session' = [session EXCEPT
                   !.pc = IF session.fails = "connect" THEN "returned"
                          ELSE "restore.start",
                   !.nested = session.fails # "connect"]
  /\ UNCHANGED <<busVars, started, entities, relationships, handled, storeVars,
                 graphVars, batch>>

\* open_project: the counts are read and project.opened is published, inside
\* a try whose except clause only logs
OpenEmit ==
  /\ session.pc = "open.emit"
  /\ session' = [(IF session.fails = "emit" THEN session
                  ELSE SessionPublish(session, "project.opened")) EXCEPT
                   !.pc = "returned"]
  /\ UNCHANGED <<busVars, started, entities, relationships, handled, storeVars,
                 graphVars, batch>>

\* restore_session: publish("session.restore.start", {}), _clear_workspace()
RestoreStart ==
  /\ session.pc = "restore.start"
  /\ session' = [SessionPublish(session, "session.restore.start") EXCEPT
                   !.pc = "restore.clean"]
  /\ UNCHANGED <<busVars, started, entities, relationships, handled, storeVars,
                 graphVars, batch>>

\* restore_session: the cleanup of stale processing entries, whose exception
\* is caught and logged
RestoreClean ==
  /\ session.pc = "restore.clean"
  /\ session' = [session EXCEPT !.pc = "restore.reindex"]
  /\ UNCHANGED <<busVars, started, entities, relationships, handled, storeVars,
                 graphVars, batch>>

\* restore_session: clear the vector collections, re-index entities and
\* relationships, load profiles, narratives and cards.  None of it is inside a
\* try: an exception leaves restore_session, and is caught by open_project's
\* except clause when open_project made the call.
RestoreReindex ==
  /\ session.pc = "restore.reindex"
  /\ session' = [session EXCEPT
                   !.pc = IF session.fails # "restore_step" THEN "restore.graph"
                          ELSE IF session.nested THEN "returned"
                          ELSE "raised"]
  /\ UNCHANGED <<busVars, started, entities, relationships, handled, storeVars,
                 graphVars, batch>>

\* restore_session: publish(TOPIC_GRAPH_UPDATED, ...) with empty statistics
RestoreGraph ==
  /\ session.pc = "restore.graph"
  /\ session' = [SessionPublish(session, TOPIC_GRAPH_UPDATED) EXCEPT
                   !.pc = "restore.end"]
  /\ UNCHANGED <<busVars, started, entities, relationships, handled, storeVars,
                 graphVars, batch>>

\* restore_session: publish("session.restore.end", {}) and return
RestoreEnd ==
  /\ session.pc = "restore.end"
  /\ session' = [SessionPublish(session, "session.restore.end") EXCEPT
                   !.pc = AfterRestore(session)]
  /\ UNCHANGED <<busVars, started, entities, relationships, handled, storeVars,
                 graphVars, batch>>

\* save_project: publish("project.saving.start", {})
SaveStart ==
  /\ session.pc = "save.start"
  /\ session' = [SessionPublish(session, "project.saving.start") EXCEPT
                   !.pc = "save.body"]
  /\ UNCHANGED <<busVars, started, entities, relationships, handled, storeVars,
                 graphVars, batch>>

\* save_project: store the config and checkpoint, inside a try whose except
\* clause logs the error
SaveBody ==
  /\ session.pc = "save.body"
  /\ session' = [session EXCEPT !.pc = "save.end"]
  /\ UNCHANGED <<busVars, started, entities, relationships, handled, storeVars,
                 graphVars, batch>>

\* save_project: publish("project.saving.end", {}) and return
SaveEnd ==
  /\ session.pc = "save.end"
  /\ session' = [SessionPublish(session, "project.saving.end") EXCEPT
                   !.pc = "returned"]
  /\ UNCHANGED <<busVars, started, entities, relationships, handled, storeVars,
                 graphVars, batch>>

\* the loop runs the oldest task the publishes created: the shell's handler
\* of its topic sets or clears project_operation_active[0]
ShellHandle ==
  /\ session.queue # <<>>
  /\ session' = [session EXCEPT
                   !.queue = Tail(@),
                   !.active = IndicatorAfter(Head(session.queue), @)]
  /\ UNCHANGED <<busVars, started, entities, relationships, handled, storeVars,
                 graphVars, batch>>

\* One project operation of the SessionManager, with the shell's handlers
\* running on the same loop.
NextSession ==
  \/ \E op \in SessionOps : \E f \in SessionFailures(op) : SessionCall(op, f)
  \/ OpenStart
  \/ OpenCheck
  \/ OpenConnect
  \/ OpenEmit
  \/ RestoreStart
  \/ RestoreClean
  \/ RestoreReindex
  \/ RestoreGraph
  \/ RestoreEnd
  \/ SaveStart
  \/ SaveBody
  \/ SaveEnd
  \/ ShellHandle

SessionSpec == Init /\ [][NextSession]_vars

\* the operation is over and every task its publishes created has run
SessionDrained ==
  /\ session.pc \in {"returned", "raised"}
  /\ session.queue = <<>>

\* C28: once a project operation has returned, normally or after an internal
\* failure, and the bus has drained, every start event it published is
\* followed by an event that resets the indicator, and the indicator is off.
IndicatorNeverLeftActive ==
  SessionDrained =>
    /\ \A i \in 1..Len(session.log) :
         session.log[i] \in StartEvents =>
           \E j \in (i+1)..Len(session.log) : session.log[j] \in ResetEvents
    /\ ~session.active

\* ------------------------------------------------- ExtractionService (batch)
\* chunks of the file a batch run publishes
MaxChunks == 1

\* the services _process_directory_async starts that are stages of the model,
\* in the order it starts them
BatchStages == <<"persistence", "metadata", "extraction", "graph">>

RECURSIVE StartAll(_, _)
\* await service.start() for each service, none of which suspends
StartAll(subs, stages) ==
  IF stages = <<>> THEN subs
  ELSE StartAll(SubscribeAll(subs, StageSubs(Head(stages)), started[Head(stages)] + 1),
                Tail(stages))

\* the event loop runs what is ready before it lets a timer fire: a task
\* created by publish gets its first run, and the callbacks of an ended task
\* run, before a sleep of seconds is over
LoopQuiet ==
  \A i \in 1..Len(tasks) :
    /\ tasks[i].state # "scheduled"
    /\ ~(tasks[i].state = "finished" /\ i \in pending)

\* process_directory up to the first publish of a chunk: the services are
\* started; no task exists yet.  n is the number of chunks _chunk_text makes
\* of the one file of the directory.
BatchStart(n) ==
  /\ batch.pc = "idle"
  /\ lock = NoOwner
  /\ batch' = [batch EXCEPT !.pc = "publish", !.left = n]
  /\ subscribers' = StartAll(subscribers, BatchStages)
  /\ started' = [s \in Stages |->
                  IF s \in Range(BatchStages) THEN started[s] + 1 ELSE started[s]]
  /\ EnsureLock
  /\ UNCHANGED <<lock, tasks, pending, waiter, pubs, unsubbed, resub, calls, loop,
                 unlocked, wiped, entities, relationships, handled, storeVars,
                 graphVars, session>>

\* await self.event_bus.publish(TOPIC_DATA_INGESTED, ...) for the next chunk,
\* then await asyncio.sleep(2.0)
BatchPublish ==
  /\ batch.pc = "publish"
  /\ batch' = [batch EXCEPT !.pc = "sleep_chunk", !.left = @ - 1]
  /\ BusPublish(TOPIC_DATA_INGESTED, "doc")
  /\ unlocked' = IF Snapshot(subscribers, TOPIC_DATA_INGESTED) # <<>>
                 THEN Mutated("publish", "main") ELSE unlocked
  /\ UNCHANGED <<subscribers, lock, waiter, unsubbed, resub, calls, loop, wiped,
                 started, entities, relationships, handled, storeVars, graphVars,
                 session>>

\* where the coroutine goes when a sleep is over: to the next chunk, from the
\* last chunk to the sleep(3.0) after the file, from there to the final
\* sleep(20.0), and from that to the read of the counts and the return
AfterSleep(pc, left) ==
  CASE pc = "sleep_chunk" -> IF left > 0 THEN "publish" ELSE "sleep_file"
    [] pc = "sleep_file" -> "sleep_final"
    [] OTHER -> "returned"

\* a sleep of the batch coroutine is over.  When it returns, run_until_complete
\* ends and process_directory closes the loop: unfinished holds the tasks
\* that had not completed by then.
BatchWake ==
  /\ batch.pc \in {"sleep_chunk", "sleep_file", "sleep_final"}
  /\ LoopQuiet
  /\ batch' = [batch EXCEPT
                 !.pc = AfterSleep(batch.pc, batch.left),
                 !.unfinished = IF AfterSleep(batch.pc, batch.left) = "returned"
                                THEN {i \in 1..Len(tasks) : tasks[i].state # "finished"}
                                ELSE @]
  /\ UNCHANGED <<busVars, started, entities, relationships, handled, storeVars,
                 graphVars, session>>

\* a step of the loop that runs the batch: it is closed once the batch returned
LoopOpen == batch.pc # "returned"

\* A batch run of one file: the services are started, each chunk is published
\* and slept on, and the handlers' tasks run on the same loop meanwhile.
NextBatch ==
  \/ \E n \in 1..MaxChunks : BatchStart(n)
  \/ BatchPublish
  \/ BatchWake
  \/ \E i \in 1..Len(tasks) : LoopOpen /\ TaskStart(i)
  \/ \E i \in 1..Len(tasks) : LoopOpen /\ TaskFinish(i)
  \/ \E i \in 1..Len(tasks) : LoopOpen /\ TaskSkip(i)
  \/ \E i \in 1..Len(tasks), in \in ExtractInputs : LoopOpen /\ ExtractionFinish(i, in)
  \/ \E i \in 1..Len(tasks) : LoopOpen /\ DoneCallback(i)

BatchSpec == Init /\ [][NextBatch]_vars

\* ------------------------------------------------- cascade of one publish

\* the stages and UI controllers of the application, in the order they
\* subscribe
CascadeStages ==
  <<"extraction", "metadata", "graph", "persistence", "card", "appstate",
    "intelligence", "dashboard", "shell">>

\* the topics some handler of a stage or UI controller is subscribed to
CascadeTopics ==
  UNION {{StageSubs(s)[j][1] : j \in 1..Len(StageSubs(s))} : s \in Stages \cup UiControllers}

RECURSIVE StartTogether(_, _)
\* every stage's start() and every controller's _subscribe_to_events(), each
\* called once
StartTogether(subs, stages) ==
  IF stages = <<>> THEN subs
  ELSE StartTogether(SubscribeAll(subs, StageSubs(Head(stages)), 1), Tail(stages))

\* the application is up: all stages and controllers have subscribed
AllStarted == \A s \in Stages : started[s] = 1

\* init_services and the construction of the controllers: everything
\* subscribes before an event is published
CascadeStart ==
  /\ \A s \in Stages : started[s] = 0
  /\ pubs = <<>>
  /\ lock = NoOwner
  /\ subscribers' = StartTogether(subscribers, CascadeStages)
  /\ started' = [s \in Stages |-> 1]
  /\ EnsureLock
  /\ UNCHANGED <<lock, tasks, pending, waiter, pubs, unsubbed, resub, calls, loop,
                 unlocked, wiped, entities, relationships, handled, appVars>>

\* the application publishes one event, on any topic that has a handler
CascadePublish(t) ==
  /\ AllStarted
  /\ pubs = <<>>
  /\ Publish(t, "doc")

\* handlers whose body awaits nothing but bus.publish, which does not suspend
\* while the lock is free: once called they run to their end
NeverSuspends(m) ==
  m \in {"card.handle_entity_extracted", "persistence.handle_entity_extracted",
         "persistence.handle_graph_updated", "persistence.handle_workspace_schema",
         "persistence.handle_semantic_profile", "persistence.handle_narrative_generated",
         "appstate._handle_workspace_schema", "appstate._handle_workspace_clear",
         "appstate._handle_status_text", "appstate._handle_nav_select",
         "intelligence._on_card_ready", "dashboard._on_graph_updated",
         "shell._on_data_ingested", "shell._on_entity_extracted",
         "shell._on_graph_updated"}

\* task i is inside a handler that will not give the loop back before its end
SyncTask(i) ==
  /\ tasks[i].state = "running"
  /\ tasks[i].ran \in BoundObjects
  /\ NeverSuspends(MethodOf(tasks[i].ran))

SyncRunning == \E i \in 1..Len(tasks) : SyncTask(i)

\* the loop's ready queue is first in, first out.  A task is queued for its
\* first run when publish creates it, so the first runs are in the order of
\* creation.
FirstRunNext(i) ==
  /\ ~SyncRunning
  /\ \A j \in 1..(i - 1) : tasks[j].state # "scheduled"

\* the done callbacks of a task are queued when it ends, behind the first run
\* of every task created until then, and a handler creates its tasks before
\* it ends
CallbackNext(i) ==
  /\ ~SyncRunning
  /\ \A j \in 1..Len(tasks) : tasks[j].state # "scheduled"
  /\ \A j \in 1..(i - 1) : ~(tasks[j].state = "finished" /\ j \in pending)

\* the loop can resume task i: it is the handler that holds the loop, or no
\* handler holds the loop and what task i waited for (an LLM call, a sleep) is
\* over, which is after the loop has run what was ready
CanResume(i) == IF SyncTask(i) THEN TRUE ELSE LoopQuiet /\ ~SyncRunning

\* One publish into the started application and the handlers it sets off.
NextCascade ==
  \/ CascadeStart
  \/ \E t \in CascadeTopics : CascadePublish(t)
  \/ \E i \in 1..Len(tasks) : FirstRunNext(i) /\ TaskStart(i)
  \/ \E i \in 1..Len(tasks) : CanResume(i) /\ TaskFinish(i)
  \/ \E i \in 1..Len(tasks) : CanResume(i) /\ TaskSkip(i)
  \/ \E i \in 1..Len(tasks), in \in ExtractInputs : CanResume(i) /\ ExtractionFinish(i, in)
  \/ \E i \in 1..Len(tasks) : CallbackNext(i) /\ DoneCallback(i)

CascadeSpec == Init /\ [][NextCascade]_vars

\* The loop keeps running while a task or callback is ready, and what a
\* suspended handler waits for comes to an end.
CascadeFairness ==
  /\ WF_vars(\E i \in 1..Len(tasks) : FirstRunNext(i) /\ TaskStart(i))
  /\ WF_vars(\E i \in 1..Len(tasks) : CanResume(i) /\ TaskFinish(i))
  /\ WF_vars(\E i \in 1..Len(tasks), in \in ExtractInputs :
               CanResume(i) /\ ExtractionFinish(i, in))
  /\ WF_vars(\E i \in 1..Len(tasks) : CallbackNext(i) /\ DoneCallback(i))

FairCascadeSpec == CascadeSpec /\ CascadeFairness

\* ---------------------------------------------------------------- Store
\* calls made on the Store class
MaxStoreCalls == 4

InitializeRaisesNever(inst) == FALSE

\* if cls._instance is not None: raise RuntimeError("Store already initialized!")
InitializeRaises(inst) == inst # 0

\* if cls._instance is None: raise RuntimeError("Store not initialized! ...")
GetRaises(inst) == inst = 0

\* cls._instance = cls(event_bus); return cls._instance
StoreInitialize ==
  /\ Len(storeLog) < MaxStoreCalls
  /\ IF InitializeRaises(store)
     THEN /\ storeLog' = Append(storeLog, [op |-> "initialize", raised |-> TRUE,
                                           returned |-> 0])
          /\ UNCHANGED <<store, storeMade>>
     ELSE /\ storeMade' = storeMade + 1
          /\ store' = storeMade + 1
          /\ storeLog' = Append(storeLog, [op |-> "initialize", raised |-> FALSE,
                                           returned |-> storeMade + 1])
  /\ UNCHANGED <<busVars, started, entities, relationships, handled, graphVars,
                 runVars>>

\* return cls._instance
StoreGet ==
  /\ Len(storeLog) < MaxStoreCalls
  /\ storeLog' = Append(storeLog, [op |-> "get", raised |-> GetRaises(store),
                                   returned |-> IF GetRaises(store) THEN 0 ELSE store])
  /\ UNCHANGED <<store, storeMade>>
  /\ UNCHANGED <<busVars, started, entities, relationships, handled, graphVars,
                 runVars>>

\* cls._instance = None
StoreReset ==
  /\ Len(storeLog) < MaxStoreCalls
  /\ store' = 0
  /\ storeLog' = Append(storeLog, [op |-> "reset", raised |-> FALSE, returned |-> 0])
  /\ UNCHANGED storeMade
  /\ UNCHANGED <<busVars, started, entities, relationships, handled, graphVars,
                 runVars>>

\* The Store class called in any order by the application and its tests.
NextStore ==
  \/ StoreInitialize
  \/ StoreGet
  \/ StoreReset

StoreSpec == Init /\ [][NextStore]_vars

\* The event loop runs every ready task and callback, and its clock advances.
\* A publish creates at most MaxCalls tasks and a handler publishes at most once.
MaxTasks == 2 * MaxPublishes * MaxCalls

Fairness ==
  /\ \A i \in 1..MaxTasks :
       /\ WF_vars(i <= Len(tasks) /\ TaskStart(i))
       /\ WF_vars(i <= Len(tasks) /\ TaskFinish(i))
       /\ WF_vars(i <= Len(tasks) /\ DoneCallback(i))
  /\ WF_vars(GatherDone)
  /\ WF_vars(SleepDone)
  /\ WF_vars(Tick)

FairIdleSpec == IdleSpec /\ Fairness

\* ---------------------------------------------------------------- properties
TasksOf(k) == {i \in 1..Len(tasks) : tasks[i].pub = k}

Occurrences(lst, h) == Cardinality({j \in 1..Len(lst) : lst[j] = h})

\* the handler calls made for publish k that reached handler h
InvocationsOf(k, h) == {i \in TasksOf(k) : tasks[i].ran = h}

AllDispatched(k) == \A i \in TasksOf(k) : tasks[i].state # "scheduled"

Drained(k) ==
  \A i \in TasksOf(k) : tasks[i].state = "finished" /\ i \notin pending

\* C1 (fan-out): a publish on a topic with N subscribed handlers invokes each
\* of them at most once, never a second time after a raise, always with the
\* published payload, and once its tasks have all been dispatched exactly
\* once each: N invocations.
FanOut ==
  /\ \A i \in 1..Len(tasks) :
       /\ tasks[i].runs <= 1
       /\ tasks[i].runs = 1 =>
            /\ tasks[i].got = pubs[tasks[i].pub].payload
            /\ tasks[i].ran \in Range(pubs[tasks[i].pub].snapshot)
       /\ \A j \in 1..(i - 1) :
            (tasks[j].pub = tasks[i].pub /\ tasks[i].runs = 1 /\ tasks[j].runs = 1)
              => tasks[j].ran # tasks[i].ran
  /\ \A k \in 1..Len(pubs) :
       AllDispatched(k) =>
         \A h \in Range(pubs[k].snapshot) :
           \E i \in 1..Len(tasks) :
             tasks[i].pub = k /\ tasks[i].ran = h /\ tasks[i].runs = 1

\* two handlers, one of which raised, both invoked for one publish
FanOutWitness ==
  \E k \in 1..Len(pubs) :
    /\ Len(pubs[k].snapshot) = 2
    /\ Drained(k)
    /\ \E i \in TasksOf(k) : tasks[i].hres = "raised"
    /\ \E i \in TasksOf(k) : tasks[i].hres = "ok"

\* C2 (fault isolation): when a raising handler and a succeeding handler are
\* subscribed to the published topic, then once the publish is drained the
\* succeeding handler has run to completion exactly once, and the exception
\* has left no task: nothing reaches the publisher or whoever awaits the tasks.
FaultIsolation ==
  /\ \A i \in 1..Len(tasks) : ~tasks[i].exc
  /\ \A k \in 1..Len(pubs) :
       ( /\ "hRaise" \in Range(pubs[k].snapshot)
         /\ "hOk" \in Range(pubs[k].snapshot)
         /\ Drained(k) )
       => /\ Cardinality(InvocationsOf(k, "hOk")) = 1
          /\ \A i \in InvocationsOf(k, "hOk") :
               tasks[i].hres = "ok" /\ tasks[i].runs = 1
          /\ \E i \in InvocationsOf(k, "hRaise") : tasks[i].hres = "raised"

FaultIsolationWitness ==
  \E k \in 1..Len(pubs) :
    /\ pubs[k].caller = 0
    /\ "hRaise" \in Range(pubs[k].snapshot)
    /\ "hOk" \in Range(pubs[k].snapshot)
    /\ Drained(k)

\* every publish a finished cascading handler made has all its handlers done
CascadeSettled ==
  /\ \A i \in 1..Len(tasks) : tasks[i].state = "finished"
  /\ \A i \in 1..Len(tasks) :
       (tasks[i].ran \in Handlers /\ Behaviour(tasks[i].ran) = "cascade") =>
         \E k \in 1..Len(pubs) :
           /\ pubs[k].caller = i
           /\ \A h \in Range(pubs[k].snapshot) :
                \E j \in TasksOf(k) : tasks[j].ran = h /\ tasks[j].state = "finished"

\* C3 (idle barrier): wait_until_idle returns true only in a step that leaves
\* the pending-task set empty, every dispatched handler finished, and for
\* each handler that published during its run the handlers of that second
\* event finished as well.
IdleBarrier ==
  [][ ( /\ waiter.pc # "returned"
        /\ waiter'.pc = "returned"
        /\ waiter'.result = "true" )
      => (pending' = {} /\ CascadeSettled') ]_vars

\* the barrier waited and returned true after a cascade H1 -> H2
IdleBarrierWitness ==
  /\ waiter.pc = "returned"
  /\ waiter.result = "true"
  /\ waiter.waited
  /\ \E k \in 1..Len(pubs) :
       /\ pubs[k].caller # 0
       /\ pubs[k].snapshot # <<>>
       /\ Drained(k)

\* C4 (fire-and-forget): the step in which the application's publish runs
\* and returns creates one task per handler of its snapshot, registers each
\* as pending, and leaves every one of them not yet started; no handler has
\* been awaited, whatever the handler later does.
FireAndForget ==
  [][ (Len(pubs') = Len(pubs) + 1 /\ pubs'[Len(pubs')].caller = 0)
      => LET new == (Len(tasks) + 1)..Len(tasks')
         IN /\ Cardinality(new) = Len(pubs'[Len(pubs')].snapshot)
            /\ new \subseteq pending'
            /\ \A i \in new : tasks'[i].state = "scheduled" /\ tasks'[i].runs = 0
            /\ \A i \in 1..Len(tasks) : tasks'[i] = tasks[i] ]_vars

\* publish has returned and its never-completing handler hangs
FireAndForgetWitness ==
  \E k \in 1..Len(pubs) :
    /\ pubs[k].caller = 0
    /\ \E i \in TasksOf(k) : tasks[i].ran = "hHang" /\ tasks[i].state = "running"
    /\ \E i \in TasksOf(k) : tasks[i].state = "scheduled"

\* C5 (drain timeout): every call of wait_until_idle that had to wait
\* eventually returns, also when a pending handler never completes.
WaitEventuallyReturns == (waiter.pc = "gather") ~> (waiter.pc = "returned")

\* C6 (subscribe is idempotent): no subscriber list holds a handler twice,
\* however often it was subscribed, and no publish creates two invocations
\* of one handler.
NoDuplicates(lst) ==
  \A a \in 1..Len(lst) : \A b \in 1..(a - 1) : lst[a] # lst[b]

SubscribeIdempotent ==
  /\ \A t \in DOMAIN subscribers : NoDuplicates(subscribers[t])
  /\ \A k \in 1..Len(pubs) : NoDuplicates(pubs[k].snapshot)
  /\ \A i \in 1..Len(tasks) : \A j \in 1..(i - 1) :
       tasks[j].pub = tasks[i].pub =>
         /\ tasks[j].handler # tasks[i].handler
         /\ tasks[i].runs <= 1
         /\ (tasks[i].runs = 1 /\ tasks[j].runs = 1) => tasks[j].ran # tasks[i].ran

\* a handler subscribed twice, then published to and invoked
SubscribeIdempotentWitness ==
  \E k \in 1..Len(pubs) : \E h \in pubs[k].resubbed :
    /\ Cardinality(InvocationsOf(k, h)) = 1
    /\ Occurrences(subscribers[pubs[k].topic], h) = 1

\* C7 (unsubscribe): a publish that starts after unsubscribe(T, H), with H not
\* subscribed to T again in between, creates no task for H and invokes H
\* for no task.
UnsubscribeStops ==
  \A i \in 1..Len(tasks) :
    /\ tasks[i].handler \notin pubs[tasks[i].pub].excluded
    /\ tasks[i].ran \notin pubs[tasks[i].pub].excluded

\* a handler that was subscribed, then unsubscribed, then published to
UnsubscribeStopsWitness ==
  \E k \in 1..Len(pubs) : pubs[k].caller = 0 /\ pubs[k].removed # {}

\* C8 (no subscriber): a publish that finds no subscriber creates no task and
\* leaves the pending-task set and the subscriber map as they were.
NoSubscriberPublish ==
  [][ (Len(pubs') = Len(pubs) + 1 /\ pubs'[Len(pubs')].snapshot = <<>>)
      => /\ Len(tasks') = Len(tasks)
         /\ pending' = pending
         /\ subscribers' = subscribers ]_vars

\* a publish on a topic that was never subscribed
NoSubscriberPublishWitness ==
  \E k \in 1..Len(pubs) :
    /\ pubs[k].caller = 0
    /\ pubs[k].snapshot = <<>>
    /\ pubs[k].topic \notin DOMAIN subscribers

\* C9 (snapshot isolation): the handler a task invokes is the handler at its
\* place in the snapshot of its publish, and once every task of a publish has
\* been dispatched the handlers invoked are exactly those of the snapshot,
\* whatever was subscribed since.
SnapshotIsolation ==
  /\ \A i \in 1..Len(tasks) :
       tasks[i].state # "scheduled" =>
         tasks[i].ran = pubs[tasks[i].pub].snapshot[tasks[i].idx]
  /\ \A k \in 1..Len(pubs) :
       AllDispatched(k) =>
         {tasks[i].ran : i \in TasksOf(k)} = Range(pubs[k].snapshot)

\* a handler subscribed after the snapshot, before any handler of it has run
SnapshotLateSubscriber ==
  \E k \in 1..Len(pubs) : \E h \in Handlers :
    /\ pubs[k].snapshot # <<>>
    /\ \A i \in TasksOf(k) : tasks[i].state = "scheduled"
    /\ h \notin Range(pubs[k].snapshot)
    /\ h \in Range(GetOrEmpty(subscribers, pubs[k].topic))

\* C10 (handlers run outside the lock): while a handler invocation is
\* suspended the lock is free, so a subscribe, an unsubscribe and a publish
\* can each run at once, and a handler that publishes on the bus itself has
\* completed that publish.
LockFreeWhileHandlerRuns ==
  /\ (\E i \in 1..Len(tasks) : tasks[i].state = "running") =>
       /\ lock = NoOwner
       /\ calls < MaxCalls =>
            /\ ENABLED Subscribe("T1", "hOk")
            /\ ENABLED Unsubscribe("T1", "hOk")
       /\ MainPublishes < MaxPublishes => ENABLED Publish("T1", "p1")
  /\ \A i \in 1..Len(tasks) :
       ( /\ tasks[i].state = "finished"
         /\ tasks[i].ran \in Handlers
         /\ Behaviour(tasks[i].ran) = "cascade" ) =>
         \E k \in 1..Len(pubs) : pubs[k].caller = i

\* a handler that never completes is suspended and the bus is still usable
LockFreeWitness ==
  /\ \E i \in 1..Len(tasks) : tasks[i].ran = "hHang" /\ tasks[i].state = "running"
  /\ calls < MaxCalls
  /\ ENABLED Subscribe("T1", "hOk")

\* C11: every mutation of the subscriber map and of the pending set, by
\* subscribe, unsubscribe, publish's registration of new tasks, the
\* task-completion removal and clear, happens while the mutating operation
\* holds the bus lock: no operation has ever mutated them without it.
LockDiscipline == unlocked = {}

\* C12: clear() empties the subscriber map and leaves the tasks and the
\* pending set as they were, and no publish creates a task for a handler
\* whose subscription was dropped by clear() and not made again since.
ClearDropsSubscriptions ==
  /\ [][Clear => (subscribers' = <<>> /\ tasks' = tasks /\ pending' = pending)]_vars
  /\ [](\A i \in 1..Len(tasks) :
          /\ tasks[i].handler \notin pubs[tasks[i].pub].wiped
          /\ tasks[i].ran \notin pubs[tasks[i].pub].wiped)

\* an invocation still in flight although clear() has dropped its subscription,
\* and a later publish on a cleared topic that found nobody
ClearWitness ==
  /\ \E i \in 1..Len(tasks) :
       /\ tasks[i].state = "running"
       /\ i \in pending
       /\ <<tasks[i].topic, tasks[i].handler>> \in wiped
  /\ subscribers = <<>>

\* the effect unsubscribe(t, h) may have on the subscriber map
UnsubscribeFrame(t, h) ==
  /\ DOMAIN subscribers' = DOMAIN subscribers
  /\ \A x \in DOMAIN subscribers :
       subscribers'[x] = IF x = t
                         THEN SelectSeq(subscribers[x], LAMBDA g : g # h)
                         ELSE subscribers[x]
  /\ h \notin Range(GetOrEmpty(subscribers, t)) => subscribers' = subscribers
  /\ tasks' = tasks
  /\ pending' = pending

Unfinished == {i \in 1..Len(tasks) : tasks[i].state # "finished"}

\* C18 as claimed: in every reachable state the pending set is exactly the
\* set of dispatched invocations that have not completed.
PendingExactlyUnfinished == pending = Unfinished

\* C18 as amended: the pending set holds every dispatched invocation that has
\* not completed, one per (handler, publish) pair, and beyond those only
\* completed invocations whose completion callback is still queued, normal
\* return or raise alike; once all have finished and no callback is queued
\* the set is empty.
PendingBookkeeping ==
  /\ Unfinished \subseteq pending
  /\ pending \subseteq 1..Len(tasks)
  /\ \A i \in pending \ Unfinished : ENABLED DoneCallback(i)
  /\ \A k \in 1..Len(pubs) :
       \A j \in 1..Len(pubs[k].snapshot) :
         \E i \in TasksOf(k) :
           /\ tasks[i].handler = pubs[k].snapshot[j]
           /\ tasks[i].idx = j
           /\ \A i2 \in TasksOf(k) : tasks[i2].handler = tasks[i].handler => i2 = i
  /\ (Unfinished = {} /\ \A i \in 1..Len(tasks) : ~ENABLED DoneCallback(i))
       => pending = {}

\* two invocations of one publish, one returned and one raised, both completed
\* and taken out of the pending set
PendingBookkeepingWitness ==
  /\ pending = {}
  /\ \E i, j \in 1..Len(tasks) :
       /\ tasks[i].pub = tasks[j].pub
       /\ tasks[i].hres = "ok"
       /\ tasks[j].hres = "raised"

\* a step of subscribe, unsubscribe or publish, the operations that call
\* _ensure_lock
LockedCall == (calls' # calls \/ Len(pubs') # Len(pubs)) /\ ~Clear

\* C19: a bus operation called under a loop other than the one the lock was
\* made under replaces the lock by a new one made under the calling loop and
\* drops no subscription; a publish that does so snapshots the subscriptions
\* made under the earlier loop, and each of them gets its invocation.
LoopRebinding ==
  /\ [][(LockedCall /\ loopId # NoLoop /\ loopId # loop) =>
          /\ lockObj' = lockObj + 1
          /\ loopId' = loop
          /\ \A t \in DOMAIN subscribers :
               /\ t \in DOMAIN subscribers'
               /\ Range(subscribers[t]) \subseteq Range(subscribers'[t])
          /\ Len(pubs') # Len(pubs) =>
               /\ pubs'[Len(pubs')].snapshot =
                    GetOrEmpty(subscribers, pubs'[Len(pubs')].topic)
               /\ Len(tasks') = Len(tasks) + Len(pubs'[Len(pubs')].snapshot)]_vars
  /\ [](\A k \in 1..Len(pubs) :
          (pubs[k].rebound /\ AllDispatched(k)) =>
            \A h \in Range(pubs[k].snapshot) :
              \E i \in TasksOf(k) : tasks[i].ran = h /\ tasks[i].runs = 1)

\* a publish under the UI's loop was the first call after the switch, found a
\* handler subscribed under the initialisation loop, and that handler ran
LoopRebindingWitness ==
  \E k \in 1..Len(pubs) :
    /\ pubs[k].rebound
    /\ pubs[k].loop # FirstLoop
    /\ lockObj = 2
    /\ \E i \in TasksOf(k) : tasks[i].hres = "ok"

\* the handler is a bound-method object of method m
IsMethod(h, m) == h \in BoundObjects /\ MethodOf(h) = m

\* no unsubscribe of method m on topic t is outstanding
NotUnsubscribed(t, m) == \A x \in unsubbed : ~(x[1] = t /\ IsMethod(x[2], m))

\* C14: however often start() (or AppState.initialize()) was called on a
\* stage, each of its handlers is at most once in its topic's list, exactly
\* once while it has not been unsubscribed, and every event published on the
\* topic then has exactly one invocation of that handler, run once.
StartIdempotent ==
  \A s \in Stages : \A j \in 1..Len(StageSubs(s)) :
    LET t == StageSubs(s)[j][1]
        m == StageSubs(s)[j][2]
        lst == GetOrEmpty(subscribers, t)
    IN /\ \A a \in 1..Len(lst) : \A b \in 1..(a - 1) :
            ~(IsMethod(lst[a], m) /\ IsMethod(lst[b], m))
       /\ (started[s] >= 1 /\ NotUnsubscribed(t, m)) =>
            \E a \in 1..Len(lst) : IsMethod(lst[a], m)
       /\ \A k \in 1..Len(pubs) :
            pubs[k].topic = t =>
              /\ \A i1, i2 \in TasksOf(k) :
                   (IsMethod(tasks[i1].handler, m) /\ IsMethod(tasks[i2].handler, m))
                     => i1 = i2
              /\ (started[s] >= 1 /\ NotUnsubscribed(t, m)) =>
                   \E i \in TasksOf(k) :
                     /\ IsMethod(tasks[i].handler, m)
                     /\ tasks[i].runs <= 1
                     /\ tasks[i].state # "scheduled" => tasks[i].runs = 1

\* a stage started twice, then a document whose event found one handler, ran
\* it and drained
StartIdempotentWitness ==
  \E s \in {"extraction", "metadata"} :
    /\ started[s] = 2
    /\ \E k \in 1..Len(pubs) :
         /\ pubs[k].topic = TOPIC_DATA_INGESTED
         /\ Len(pubs[k].snapshot) = 1
         /\ Drained(k)

IsBlankDoc(d) == Content(d) = <<>> \/ \A j \in 1..Len(Content(d)) : Content(d)[j] = " "

\* the failures the extraction stage can meet after its content check: no LLM
\* provider, a prompt that does not render, an LLM call that raises (at once or
\* after its retries), a None or non-list result, no valid entity in the list
Unusable(in) ==
  \/ ~in.provider
  \/ in.render = "raise"
  \/ in.llm.kind \in {"raise", "none", "dict"}
  \/ \A j \in 1..Len(in.llm.items) : in.llm.items[j] # "valid"

\* task i ends normally in this step and nothing is published or scheduled
QuietReturn(i) ==
  /\ pubs' = pubs
  /\ Len(tasks') = Len(tasks)
  /\ pending' = pending
  /\ tasks'[i].state = "finished"
  /\ tasks'[i].hres = "ok"
  /\ ~tasks'[i].exc

\* C15: when the extraction stage has no usable result for a data.ingested
\* event - blank content, or one of the failures above - its handler returns
\* normally and publishes nothing, so no task is created on any topic; and
\* entity.extracted is only ever published by it for a non-blank document.
SilentSkip ==
  /\ [][\A i \in 1..Len(tasks) :
          /\ \A in \in ExtractInputs :
               (ExtractionFinish(i, in) /\ Unusable(in)) => QuietReturn(i)
          /\ (/\ TaskStart(i)
              /\ IsMethod(tasks[i].handler, "extraction.handle_data_ingested")
              /\ IsBlankDoc(tasks[i].payload)) => QuietReturn(i)]_vars
  /\ [](\A k \in 1..Len(pubs) :
          pubs[k].topic = TOPIC_ENTITY_EXTRACTED =>
            /\ pubs[k].caller # 0
            /\ IsMethod(tasks[pubs[k].caller].ran, "extraction.handle_data_ingested")
            /\ ~IsBlankDoc(pubs[k].payload))

\* an extraction handler that got a non-blank document has returned without
\* publishing although a stage is subscribed to entity.extracted
SilentSkipWitness ==
  \E i \in 1..Len(tasks) :
    /\ IsMethod(tasks[i].ran, "extraction.handle_data_ingested")
    /\ tasks[i].state = "finished"
    /\ tasks[i].hres = "ok"
    /\ ~IsBlankDoc(tasks[i].got)
    /\ \A k \in 1..Len(pubs) : pubs[k].caller # i
    /\ GetOrEmpty(subscribers, TOPIC_ENTITY_EXTRACTED) # <<>>

StartedStages == {s \in Stages : started[s] > 0}

\* the stages with a handler that publishes on topic t
Producers(t) ==
  {s \in Stages : \E j \in 1..Len(StageSubs(s)) :
                    /\ MethodBehaviour(StageSubs(s)[j][2]) # "ok"
                    /\ OutTopicOf(StageSubs(s)[j][2]) = t}

ProducedTopics == {OutTopicOf(m) : m \in {x \in Methods : MethodBehaviour(x) # "ok"}}

\* C16: whichever stages were started, a document can be ingested and no
\* task fails; every task is for a handler that a started stage subscribed to
\* the topic of the event it was created for; and on a topic whose producing
\* stages were not started nothing is published and no handler is invoked.
MissingStagesTolerated ==
  /\ (MainPublishes < MaxPublishes /\ pending = {}) =>
       \A d \in Docs : ENABLED Ingest(d)
  /\ \A i \in 1..Len(tasks) :
       /\ ~tasks[i].exc
       /\ tasks[i].topic = pubs[tasks[i].pub].topic
       /\ \E s \in StartedStages : \E j \in 1..Len(StageSubs(s)) :
            /\ StageSubs(s)[j][1] = tasks[i].topic
            /\ IsMethod(tasks[i].handler, StageSubs(s)[j][2])
       /\ tasks[i].ran # NoHandler => tasks[i].ran = tasks[i].handler
  /\ \A t \in ProducedTopics :
       Producers(t) \cap StartedStages = {} =>
         /\ \A k \in 1..Len(pubs) : pubs[k].topic # t
         /\ \A i \in 1..Len(tasks) : tasks[i].topic # t

\* only stages downstream of a missing one were started: a document was
\* ingested, nobody was invoked and nothing else was published
MissingStagesWitness ==
  /\ started["extraction"] = 0
  /\ started["graph"] > 0
  /\ started["persistence"] > 0
  /\ Len(pubs) = 1
  /\ pubs[1].topic = TOPIC_DATA_INGESTED
  /\ tasks = <<>>

\* C20 as claimed: a handler object is added by subscribe whenever that very
\* object is not yet in the topic's list, and unsubscribe removes nothing but
\* that very object.
IdentityComparison ==
  /\ [][\A s \in Stages :
          (StartStage(s) /\ ~StartReturnsEarly(s)) =>
            \A j \in 1..Len(StageSubs(s)) :
              LET t == StageSubs(s)[j][1]
                  h2 == Bound(StageSubs(s)[j][2], started[s] + 1)
              IN h2 \notin Range(GetOrEmpty(subscribers, t))
                   => h2 \in Range(subscribers'[t])]_vars
  /\ [][\A s \in Stages : \A j \in 1..Len(StageSubs(s)), n \in 1..(MaxCalls + 1) :
          UnsubscribeStage(s, j, n) =>
            LET t == StageSubs(s)[j][1]
                h2 == Bound(StageSubs(s)[j][2], n)
            IN \A g \in Range(GetOrEmpty(subscribers, t)) :
                 g # h2 => g \in Range(GetOrEmpty(subscribers', t))]_vars

\* C20 as amended: handlers are compared by equality: subscribe adds a
\* handler only when no handler equal to it (the same function, or a bound
\* method of the same method of the same instance) is in the topic's list,
\* and unsubscribe removes the handler of the list that is equal to the one
\* given, the same object or not.
EqualityComparison ==
  /\ [][\A s \in Stages :
          (StartStage(s) /\ ~StartReturnsEarly(s)) =>
            \A j \in 1..Len(StageSubs(s)) :
              LET t == StageSubs(s)[j][1]
                  m == StageSubs(s)[j][2]
                  lst == GetOrEmpty(subscribers, t)
              IN subscribers'[t] =
                   IF \E a \in 1..Len(lst) : IsMethod(lst[a], m)
                   THEN lst
                   ELSE Append(lst, Bound(m, started[s] + 1))]_vars
  /\ [][\A s \in Stages : \A j \in 1..Len(StageSubs(s)), n \in 1..(MaxCalls + 1) :
          UnsubscribeStage(s, j, n) =>
            LET t == StageSubs(s)[j][1]
                m == StageSubs(s)[j][2]
            IN GetOrEmpty(subscribers', t) =
                 SelectSeq(GetOrEmpty(subscribers, t), LAMBDA g : ~IsMethod(g, m))]_vars

\* a stage was started once, and an unsubscribe given a second bound-method
\* object of its handler has removed the first one
EqualityComparisonWitness ==
  \E s \in Stages : \E j \in 1..Len(StageSubs(s)) :
    /\ started[s] = 1
    /\ <<StageSubs(s)[j][1], Bound(StageSubs(s)[j][2], 2), TRUE>> \in unsubbed
    /\ subscribers[StageSubs(s)[j][1]] = <<>>
\* C17 - replay safety of persistence: when DuckDBPersistenceService handles
\* the event it handled last once more, the entity rows and the relationship
\* rows stay as they were, so that a replay adds no duplicate row.
ReplaySafe ==
  [][(/\ handled # <<>>
      /\ Len(handled') = Len(handled) + 1
      /\ handled'[Len(handled')] = handled[Len(handled)])
     => (entities' = entities /\ relationships' = relationships)]_vars

\* C26: an unsubscribe leaves every task and the pending set as they were, so
\* an invocation a publish has scheduled is not withdrawn: each scheduled task
\* can still start, whatever was unsubscribed since its publish, and the step
\* that starts it invokes the handler of its snapshot, once, with the
\* published payload.
ScheduledSurvivesUnsubscribe ==
  /\ [][\A t \in Topics, h \in Handlers :
          Unsubscribe(t, h) => (tasks' = tasks /\ pending' = pending)]_vars
  /\ [][\A i \in 1..Len(tasks) :
          (tasks[i].state = "scheduled" /\ TaskStart(i)) =>
            /\ tasks'[i].ran = tasks[i].handler
            /\ tasks'[i].got = pubs[tasks[i].pub].payload
            /\ tasks'[i].runs = 1]_vars
  /\ [](\A i \in 1..Len(tasks) :
          /\ tasks[i].state = "scheduled" => (i \in pending /\ ENABLED TaskStart(i))
          /\ tasks[i].state # "scheduled" => tasks[i].runs = 1)

\* a handler unsubscribed after the publish took its snapshot and before its
\* task has run: it is gone from the list and its task is still to run
ScheduledSurvivesWitness ==
  \E i \in 1..Len(tasks) :
    /\ tasks[i].state = "scheduled"
    /\ <<tasks[i].topic, tasks[i].handler, TRUE>> \in unsubbed
    /\ tasks[i].handler \notin pubs[tasks[i].pub].removed
    /\ ~Subscribed(GetOrEmpty(subscribers, tasks[i].topic), tasks[i].handler)
    /\ ENABLED TaskStart(i)

RECURSIVE InstanceAfter(_, _)
\* the instance in place after the first n calls of the log, as the claim has
\* it: the one the last successful initialize() returned, none after a reset()
InstanceAfter(log, n) ==
  IF n = 0 THEN 0
  ELSE IF log[n].op = "reset" THEN 0
  ELSE IF log[n].op = "initialize" /\ ~log[n].raised THEN log[n].returned
  ELSE InstanceAfter(log, n - 1)

\* C24: Store.get() raises unless initialize() has succeeded since the last
\* reset(), and otherwise returns the instance the most recent successful
\* initialize() made; initialize() raises when an instance is in place and
\* leaves it there, and otherwise makes an instance no earlier call returned.
StoreInitialiseOnce ==
  /\ store = InstanceAfter(storeLog, Len(storeLog))
  /\ \A n \in 1..Len(storeLog) :
       LET c == storeLog[n]
           before == InstanceAfter(storeLog, n - 1)
       IN /\ c.op = "get" =>
               /\ c.raised <=> before = 0
               /\ ~c.raised => c.returned = before
          /\ c.op = "initialize" =>
               /\ c.raised <=> before # 0
               /\ ~c.raised =>
                    /\ c.returned # 0
                    /\ \A m \in 1..(n - 1) : storeLog[m].returned # c.returned
          /\ c.op = "reset" => ~c.raised

\* a second initialize() raised and the get() after it returned the instance
\* of the first, after an earlier reset() had made way for that one
StoreInitialiseOnceWitness ==
  /\ Len(storeLog) = 4
  /\ storeLog[1].op = "reset"
  /\ storeLog[2].op = "initialize" /\ ~storeLog[2].raised
  /\ storeLog[3].op = "initialize" /\ storeLog[3].raised
  /\ storeLog[4].op = "get" /\ storeLog[4].returned = storeLog[2].returned

\* C22 - repeated firings: when the graph service, holding its graph in
\* memory, handles the event it handled last once more, its nodes and edges
\* stay as they were and the graph.updated it publishes carries the same
\* node_count and edge_count as the one before.
GraphReplayTolerant ==
  [][(/\ ~gDb
      /\ gPubs # <<>>
      /\ Len(gPubs') = Len(gPubs) + 1
      /\ gPubs'[Len(gPubs')].cause = gPubs[Len(gPubs)].cause)
     => /\ gNodes' = gNodes
        /\ gEdges' = gEdges
        /\ gPubs'[Len(gPubs')].node_count = gPubs[Len(gPubs)].node_count
        /\ gPubs'[Len(gPubs')].edge_count = gPubs[Len(gPubs)].edge_count]_vars

\* C23 - payloads by value: the edges a holder of a published graph.updated
\* payload reads are, at any later time, the edges the payload had when it
\* was published, as many as its edge_count says.
PayloadByValue ==
  \A k \in 1..Len(gPubs) :
    /\ Deref(gPubs[k].edges) = gPubs[k].sent
    /\ Len(Deref(gPubs[k].edges)) = gPubs[k].edge_count

\* C29 - one stored row per entity: no two rows of the entities table have
\* the same type and label.
OneRowPerEntity ==
  \A r1, r2 \in entities : (r1.type = r2.type /\ r1.label = r2.label) => r1 = r2

\* C30: in the in-memory graph every node id is in the node map once, a step
\* only ever appends nodes and leaves each node it had as it was, and every
\* non-empty source or target of a stored edge is the id of a node.
InMemoryGraphSound ==
  /\ [][/\ Len(gNodes') >= Len(gNodes)
        /\ \A j \in 1..Len(gNodes) : gNodes'[j] = gNodes[j]]_vars
  /\ [](/\ \A a, b \in 1..Len(gNodes) : gNodes[a].id = gNodes[b].id => a = b
        /\ \A j \in 1..Len(gNodes) : Truthy(gNodes[j].id)
        /\ \A k \in 1..Len(gEdges) :
             /\ Truthy(gEdges[k].source) => gEdges[k].source \in NodeIds(gNodes)
             /\ Truthy(gEdges[k].target) => gEdges[k].target \in NodeIds(gNodes))

\* a relationship made Acme a node of unknown type, and an entity.extracted
\* event naming Acme as an ORG was handled after it and left the node alone
InMemoryGraphWitness ==
  /\ ~gDb
  /\ Len(gPubs) = 2
  /\ gPubs[1].cause = "r.works"
  /\ gPubs[2].cause = "e.both"
  /\ gEdges # <<>>
  /\ \E j \in 1..Len(gNodes) : gNodes[j].id = "Acme" /\ gNodes[j].type = "Unknown"

\* the publishes made by the handler of task i
PublishesOf(i) == {k \in 1..Len(pubs) : pubs[k].caller = i}

RECURSIVE ChainOf(_)
\* the topics of the reaction chain that led to publish k, oldest first
ChainOf(k) ==
  IF pubs[k].caller = 0 THEN <<pubs[k].topic>>
  ELSE Append(ChainOf(tasks[pubs[k].caller].pub), pubs[k].topic)

\* no reaction chain comes back to a topic it has been through
CascadeAcyclic ==
  \A k \in 1..Len(pubs) :
    \A a, b \in 1..Len(ChainOf(k)) : a # b => ChainOf(k)[a] # ChainOf(k)[b]

\* every handler invocation of the cascade is over and the pending set is empty
CascadeDone ==
  /\ pubs # <<>>
  /\ pending = {}
  /\ \A i \in 1..Len(tasks) : tasks[i].state = "finished"

\* C25: with all stages and UI controllers started, no reaction chain leads
\* back to a topic earlier in the chain, and the cascade of a single publish
\* comes to an end: every task it created has finished and the pending set is
\* empty.
CascadesTerminate ==
  /\ [](CascadeAcyclic)
  /\ (pubs # <<>>) ~> CascadeDone

\* a cascade four events deep has drained: data.ingested, entity.extracted,
\* entity_card.ready, workspace.schema, with the handlers of the last one run
CascadesTerminateWitness ==
  /\ CascadeDone
  /\ \E k \in 1..Len(pubs) :
       /\ Len(ChainOf(k)) = 4
       /\ pubs[k].topic = TOPIC_WORKSPACE_SCHEMA
       /\ \E i \in 1..Len(tasks) : tasks[i].pub = k

\* C27 - batch completeness: when _process_directory_async has returned its
\* counts, every task dispatched for the events it published and for the
\* events that followed from them has completed, and no task is pending on
\* the bus.
BatchComplete ==
  batch.pc = "returned" =>
    /\ batch.unfinished = {}
    /\ \A i \in 1..Len(tasks) : tasks[i].state = "finished"
    /\ pending = {}

====
